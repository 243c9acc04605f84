----------------------------- MODULE Templates -----------------------------
(***************************************************************************)
(* SafeTemplateResolver: the strings of a step's configuration are         *)
(* resolved one after the other, and in a string its tokens one after the  *)
(* other, each replaced by searching the whole output for its text.  A     *)
(* string is a sequence of pieces, each a plain text or a token; the       *)
(* values read for the tokens are strings of the same kind, objects, or    *)
(* missing.  A token stands for any expression with its value, payload     *)
(* field or previous output; nesting, its limits and the syntax of         *)
(* expressions are left out.                                               *)
(***************************************************************************)
EXTENDS Integers, Sequences, SequencesExt

CONSTANTS
  Fields,      \* tokens that read a payload field or a previous output
  SecretToken, \* a token that names a secret
  Text,        \* a plain text
  Object,      \* what a value that is no scalar consists of
  None,        \* a value that is missing
  TokenLimit,  \* TEMPLATE_STRING_MAX_TOKENS, 40
  MaxPieces    \* bound: pieces of a document

TemplatesAssumption ==
  /\ {TokenLimit, MaxPieces} \subseteq Nat
  /\ {SecretToken, Text, Object, None} \cap Fields = {}
  /\ SecretToken \notin {Text, Object, None}

Tokens == Fields \cup {SecretToken}
Strings(n) == BoundedSeq(Tokens \cup {Text}, n)
Documents ==
  {<<s>> : s \in Strings(MaxPieces)} \cup {<<s1, s2>> : s1, s2 \in Strings(MaxPieces - 1)}
Values == {<<>>, <<Text>>} \cup {<<Text, t>> : t \in Fields} \cup {<<Object>>, None}

VARIABLES
  document, \* the strings of the configuration
  values,   \* what the fields read
  at,       \* the string being resolved
  matched,  \* how many of its matches are replaced
  output,   \* the strings resolved so far, and the one being resolved
  refs,     \* secretReferences: the strings that are one
  outcome   \* "running", "done" or the error

vars == <<document, values, at, matched, output, refs, outcome>>

StartsWith(d, v) ==
  /\ document = d
  /\ values = v
  /\ at = 1
  /\ matched = 0
  /\ output = document
  /\ refs = <<>>
  /\ outcome = "running"

Init == \E d \in Documents, v \in [Fields -> Values] : StartsWith(d, v)

\* matchAll: the tokens of a string, in their order.
Matches(s) == FlattenSeq([i \in DOMAIN s |-> IF s[i] \in Tokens THEN <<s[i]>> ELSE <<>>])
\* Seeded regression: whatever follows the first token is lost.
IsLed(s) == s # <<>> /\ s[1] \in Tokens
\* EXACT_TEMPLATE_TOKEN_PATTERN
IsExact(s) == Len(s) = 1 /\ s[1] \in Tokens

\* resolveExpression: what a token stands for.
Resolved(t) == IF t = SecretToken THEN <<t>> ELSE values[t]

\* isScalarTemplateValue, of a value that is there.
IsScalar(v) == v \notin {None, <<Object>>}

\* output.split(token).join(value)
ReplaceText(s, t, v) == FlattenSeq([i \in DOMAIN s |-> IF s[i] = t THEN v ELSE <<s[i]>>])

Fail(code) == outcome' = code /\ UNCHANGED <<document, values, at, matched, output, refs>>

NextString ==
  /\ at' = at + 1
  /\ matched' = 0
  /\ outcome' = IF at = Len(document) THEN "done" ELSE "running"
  /\ UNCHANGED <<document, values>>

\* A string that is one token becomes its value, whatever that is.
ResolveExact ==
  LET t == document[at][1] IN
  /\ outcome = "running" /\ IsExact(document[at])
  /\ \/ Resolved(t) = None /\ Fail("TEMPLATE_VALUE_MISSING")
     \/ /\ Resolved(t) # None
        /\ output' = [output EXCEPT ![at] = Resolved(t)]
        /\ refs' = IF t = SecretToken THEN Append(refs, at) ELSE refs
        /\ NextString

ExceedTokens ==
  /\ outcome = "running" /\ ~IsExact(document[at])
  /\ Len(Matches(document[at])) > TokenLimit
  /\ Fail("TEMPLATE_TOKEN_LIMIT_EXCEEDED")

\* One turn of the loop over the matches of the string as it was.
ReplaceMatch ==
  LET s == document[at]
      t == Matches(s)[matched + 1] IN
  /\ outcome = "running" /\ ~IsExact(s)
  /\ Len(Matches(s)) <= TokenLimit /\ matched < Len(Matches(s))
  /\ \/ t = SecretToken /\ Fail("TEMPLATE_SECRET_INTERPOLATION_UNSAFE")
     \/ t # SecretToken /\ values[t] = None /\ Fail("TEMPLATE_VALUE_MISSING")
     \/ /\ t # SecretToken /\ values[t] # None /\ ~IsScalar(values[t])
        /\ Fail("TEMPLATE_INTERPOLATION_VALUE_INVALID")
     \/ /\ t # SecretToken /\ IsScalar(values[t])
        /\ output' = [output EXCEPT ![at] = ReplaceText(@, t, values[t])]
        /\ matched' = matched + 1
        /\ UNCHANGED <<document, values, at, refs, outcome>>

FinishString ==
  /\ outcome = "running" /\ ~IsExact(document[at])
  /\ matched = Len(Matches(document[at])) /\ matched <= TokenLimit
  /\ UNCHANGED <<output, refs>>
  /\ NextString

Next == ResolveExact \/ ExceedTokens \/ ReplaceMatch \/ FinishString

Spec == Init /\ [][Next]_vars

---------------------------------------------------------------------------
IsToken(s) == \E t \in Tokens : s = <<t>>

\* What a string says: every token at its place gives way to its value.
Meaning(s) ==
  IF IsToken(s) THEN Resolved(s[1])
  ELSE FlattenSeq([i \in DOMAIN s |-> IF s[i] \in Tokens THEN Resolved(s[i]) ELSE <<s[i]>>])

CanBeResolved(s) ==
  IF IsToken(s) THEN Resolved(s[1]) # None
  ELSE /\ Len(Matches(s)) <= TokenLimit
       /\ \A i \in DOMAIN s :
            s[i] \in Tokens => s[i] # SecretToken /\ values[s[i]] \notin {None, <<Object>>}

\* A value holds the text of a token that is matched after it, or of the same one twice.
ReadAgain(s) ==
  /\ ~IsToken(s)
  /\ LET m == Matches(s) IN
     \E i, j \in DOMAIN m :
       i < j /\ m[i] \in Fields /\ IsScalar(values[m[i]]) /\ m[j] \in Range(values[m[i]])

\* Which of the first n strings are secret references.
SecretsUpTo(n) ==
  FlattenSeq([i \in 1..n |-> IF document[i] = <<SecretToken>> THEN <<i>> ELSE <<>>])

\* The resolver replaces tokens one at a time in a text that already holds values, and yet
\* a document comes out as written: each string is its meaning, the secret references are
\* the strings that are one and no other, and a document fails only if one of its strings
\* has no meaning. The exception is a value that itself has the text of a token matched
\* after it, which is read again.
ResolvedAsWritten ==
  /\ outcome = "done" =>
       /\ \A i \in DOMAIN document :
            \/ ReadAgain(document[i])
            \/ CanBeResolved(document[i]) /\ output[i] = Meaning(document[i])
       /\ refs = SecretsUpTo(Len(document))
  /\ outcome \notin {"done", "running"} => \E i \in DOMAIN document : ~CanBeResolved(document[i])
  /\ outcome = "done" => \A i \in DOMAIN document : CanBeResolved(document[i])
=============================================================================
