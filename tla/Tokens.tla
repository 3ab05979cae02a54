------------------------------- MODULE Tokens -------------------------------
(***************************************************************************)
(* The tokeniser of shared/strutils.c as its callers use it: on a text and *)
(* a context pointer into it.  A text is the sequence of the fields its    *)
(* delimiters part, and a field is told apart by whether it is empty.  A   *)
(* context is the number of the field it points at the start of; 0 is the  *)
(* null pointer.                                                           *)
(***************************************************************************)
EXTENDS Integers, Sequences

Null == 0

Texts(n) == UNION {[1..k -> BOOLEAN] : k \in 0..n}

\* numtok: the last character is never looked at, so a delimiter that ends the text does
\* not start a token; a text of no character has one.
NumTok(filled) ==
  IF Len(filled) = 1 \/ filled[Len(filled)] THEN Len(filled) ELSE Len(filled) - 1

\* *context == delimiter: the field here is empty and another one follows.
DelimiterAhead(filled, context) == context \in 1..(Len(filled) - 1) /\ ~filled[context]

\* safe_strtok: empty fields are passed over; the token is the next field that is not
\* empty, or null, and so is the context after the last.
IsToken(filled, context, t) ==
  \/ /\ t \in 1..Len(filled) /\ context # Null /\ context <= t /\ filled[t]
     /\ \A i \in context..(t - 1) : ~filled[i]
  \/ t = Null /\ (context # Null => \A i \in context..Len(filled) : ~filled[i])

ContextAfter(filled, t) == IF t = Null \/ t = Len(filled) THEN Null ELSE t + 1
=============================================================================
