----------------------------- MODULE NmeaParser -----------------------------
(***************************************************************************)
(* NmeaParser::ParseMessage and the Parse of the two sentences gpslogger   *)
(* understands, for one sentence of any shape.  A sentence is told apart   *)
(* by its type, by which of its fields are empty, and by the text after    *)
(* its asterisk.  The members of a message are numbered as the fields they *)
(* are meant to be read from; got is the field a member was read from, or  *)
(* 0 while it has the constructor's value.                                 *)
(***************************************************************************)
EXTENDS Tokens

CONSTANT MaxFields \* bounds the number of fields
ASSUME FieldsAssumption == MaxFields \in Nat

VARIABLES
  pc,       \* where ParseMessage is, or how it ended
  sentence, \* what main read between '$' and the end of the line
  context,  \* the context pointer of Parse
  member,   \* the member to be read next
  got       \* the field each member was read from

vars == <<pc, sentence, context, member, got>>

Members == 1..11

Sentences == [type   : {"RMC", "GGA", "other"},
              filled : Texts(MaxFields),
              sum    : {"right", "wrong", "odd", "none"}]

TypeOK ==
  /\ pc \in {"sum", "type", "count", "fields", "message", "dropped", "crashed"}
  /\ sentence \in Sentences
  /\ context \in 0..MaxFields
  /\ member \in 1..12
  /\ got \in [Members -> 0..MaxFields]

Init ==
  /\ pc = "sum" /\ sentence \in Sentences
  /\ context = Null /\ member = 1 /\ got = [m \in Members |-> 0]

-----------------------------------------------------------------------------
\* No text before or after the asterisk: null.  A checksum that is not two characters
\* long is not compared ("odd").
CheckSum ==
  /\ pc = "sum"
  /\ pc' = IF sentence.sum \in {"none", "wrong"} THEN "dropped" ELSE "type"
  /\ UNCHANGED <<sentence, context, member, got>>

\* A type without a comma after it leaves a null context, which numtok follows.
Dispatch ==
  /\ pc = "type"
  /\ pc' = IF sentence.type = "other" THEN "dropped"
           ELSE IF Len(sentence.filled) = 0 THEN "crashed" ELSE "count"
  /\ UNCHANGED <<sentence, context, member, got>>

\* Mutated: an older receiver's RMC, without a mode.
TokensOfOld == IF sentence.type = "RMC" THEN 10 ELSE 13
TokensWanted == IF sentence.type = "RMC" THEN 12 ELSE 13

CountTokens ==
  /\ pc = "count"
  /\ IF NumTok(sentence.filled) = TokensWanted
       THEN pc' = "fields" /\ context' = 1
       ELSE pc' = "dropped" /\ UNCHANGED context
  /\ UNCHANGED <<sentence, member, got>>

\* The members of the two messages, in the order of their fields.
RmcMembers == 11
GgaMembers == 9

LastMember == IF sentence.type = "RMC" THEN RmcMembers ELSE GgaMembers

\* The fix is read without a look at the delimiter.
\* Mutated: so is the latitude.
UntestedMore == IF sentence.type = "RMC" THEN {2, 3} ELSE {}
Untested == IF sentence.type = "RMC" THEN {2} ELSE {}

\* Mutated: a null context passes for an empty text.
NullPasses == FALSE
ContextMissing == context = Null

\* if (*context != ',') with a null context.
FollowNull ==
  /\ pc = "fields" /\ member \notin Untested /\ ContextMissing
  /\ pc' = "crashed"
  /\ UNCHANGED <<sentence, context, member, got>>

NextMember ==
  /\ member' = member + 1
  /\ pc' = IF member = LastMember THEN "message" ELSE "fields"
  /\ UNCHANGED sentence

\* Its else: context++, the member keeps its value.  (The last member of RMC has no else;
\* its context is not used again.)
SkipMember ==
  /\ pc = "fields" /\ member \notin Untested
  /\ DelimiterAhead(sentence.filled, context)
  /\ context' = context + 1
  /\ NextMember /\ UNCHANGED got

TakeMember ==
  /\ pc = "fields"
  /\ member \in Untested \/ ~(ContextMissing \/ DelimiterAhead(sentence.filled, context))
  /\ \E t \in 0..Len(sentence.filled) :
       /\ IsToken(sentence.filled, context, t)
       /\ context' = ContextAfter(sentence.filled, t)
       /\ got' = IF t # Null THEN [got EXCEPT ![member] = t] ELSE got
  /\ NextMember

Next == CheckSum \/ Dispatch \/ CountTokens \/ FollowNull \/ SkipMember \/ TakeMember

Spec == Init /\ [][Next]_vars

-----------------------------------------------------------------------------
(* Properties.                                                             *)

FixGiven == sentence.type = "RMC" => Len(sentence.filled) > 1 /\ sentence.filled[2]

\* Whatever fields the receiver leaves empty, each member of the message comes from its
\* own field or keeps the constructor's value: what the tests of *context are for, since
\* safe_strtok runs over empty fields (GprmcMessage.cpp:25-115, GpggaMessage.cpp:20-99).
\* The fix has no test (GprmcMessage.cpp:34) and must be there.
Aligned ==
  pc = "message" /\ FixGiven =>
    \A m \in 1..LastMember : got[m] = IF sentence.filled[m] THEN m ELSE 0

\* Parse follows a null context only in a sentence without a fix field, or on a type
\* alone: the count of tokens keeps it from running out of fields (GprmcMessage.cpp:18-20).
NullOnlyWithoutFix ==
  pc = "crashed" => Len(sentence.filled) = 0 \/ ~FixGiven

\* The mode, field 12, may begin with the 'A' that HasFix looks for; a sentence without
\* a fix field never gets its fix from there (GprmcMessage.cpp:34-36).
FixNotFromMode == pc = "message" /\ sentence.type = "RMC" => got[2] < 12
=============================================================================
