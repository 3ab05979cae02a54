--------------------------- MODULE Parsers_proofs ---------------------------
(***************************************************************************)
(* Proofs about what reads text: NmeaParser, for sentences of any number   *)
(* of fields, and Config, for files of any length.                         *)
(***************************************************************************)
EXTENDS NmeaParser, Config, SequenceTheorems, TLAPS

-----------------------------------------------------------------------------
(* The tokeniser.                                                          *)

\* A text has a length, and a field is empty or not.
LEMMA TextLen ==
  ASSUME NEW n \in Nat, NEW filled \in Texts(n)
  PROVE  Len(filled) \in 0..n /\ filled \in [1..Len(filled) -> BOOLEAN]
<1>1. PICK k \in 0..n : filled \in [1..k -> BOOLEAN]
  BY DEF Texts
<1>2. filled \in Seq(BOOLEAN)
  BY <1>1, SeqDef
<1>3. Len(filled) \in Nat /\ DOMAIN filled = 1..Len(filled)
  BY <1>2, LenProperties
<1>4. Len(filled) = k
  BY <1>1, <1>3
<1> QED
  BY <1>1, <1>4

\* numtok counts the last field unless it is empty.
LEMMA NumTokExact ==
  ASSUME NEW n \in Nat, NEW filled \in Texts(n), Len(filled) # 0,
         NEW w \in Nat, w > 1, NumTok(filled) = w
  PROVE  (Len(filled) = w /\ filled[w]) \/ (Len(filled) = w + 1 /\ ~filled[w + 1])
BY TextLen DEF NumTok

\* At a field that is not empty safe_strtok takes this field and moves on by one.
LEMMA TokenHere ==
  ASSUME NEW n \in Nat, NEW filled \in Texts(n), NEW c \in 1..Len(filled), filled[c],
         NEW t \in 0..Len(filled), IsToken(filled, c, t)
  PROVE  t = c /\ ContextAfter(filled, t) = IF c = Len(filled) THEN Null ELSE c + 1
<1>1. Len(filled) \in 0..n
  BY TextLen
<1>2. t = c
  BY <1>1 DEF IsToken, Null
<1> QED
  BY <1>1, <1>2 DEF ContextAfter, Null

\* Wherever it stands, the token is a field that is not empty, and the context behind it.
LEMMA TokenAhead ==
  ASSUME NEW n \in Nat, NEW filled \in Texts(n), NEW c \in 0..Len(filled),
         NEW t \in 0..Len(filled), IsToken(filled, c, t)
  PROVE  /\ ContextAfter(filled, t) \in 0..Len(filled)
         /\ t # Null => filled[t] /\ c # Null /\ c <= t
         /\ ContextAfter(filled, t) = IF t \in {0, Len(filled)} THEN 0 ELSE t + 1
<1>1. Len(filled) \in 0..n
  BY TextLen
<1> QED
  BY <1>1 DEF IsToken, ContextAfter, Null

-----------------------------------------------------------------------------
\* Before the fields are read nothing is; while they are, the count has shown how many
\* there are.
CountInv ==
  /\ pc \in {"sum", "type", "count"} => member = 1 /\ got = [m \in Members |-> 0]
  /\ pc = "count" => Len(sentence.filled) # 0
  /\ pc = "fields" =>
       /\ member \in 1..LastMember
       /\ \/ Len(sentence.filled) = TokensWanted /\ sentence.filled[TokensWanted]
          \/ Len(sentence.filled) = TokensWanted + 1 /\ ~sentence.filled[TokensWanted + 1]

\* In step, the context is at the field of the member to be read.
StepInv ==
  pc = "fields" /\ (FixGiven \/ member <= 2) =>
    /\ context = member
    /\ \A m \in 1..(member - 1) : got[m] = IF sentence.filled[m] THEN m ELSE 0
    /\ \A m \in member..LastMember : got[m] = 0

\* Out of step, a fix from beyond the eleventh field leaves a context that lasts for one
\* more member at the most.
FixInv ==
  pc = "fields" /\ sentence.type = "RMC" /\ got[2] >= 12 =>
    \/ member = 3 /\ context = Null
    \/ member = 3 /\ context = Len(sentence.filled) /\ ~sentence.filled[context]
    \/ member = 4 /\ context = Null

ContextInv == context <= Len(sentence.filled)

ParserInv ==
  /\ TypeOK /\ ContextInv /\ CountInv /\ StepInv /\ FixInv
  /\ Aligned /\ NullOnlyWithoutFix /\ FixNotFromMode

LEMMA SentenceText ==
  ASSUME NEW s \in Sentences
  PROVE  /\ Len(s.filled) \in 0..MaxFields /\ s.filled \in Texts(MaxFields)
         /\ s.filled \in [1..Len(s.filled) -> BOOLEAN]
         /\ s.type \in {"RMC", "GGA", "other"}
<1>1. s.filled \in Texts(MaxFields) /\ s.type \in {"RMC", "GGA", "other"}
  BY DEF Sentences
<1> QED
  BY <1>1, TextLen, FieldsAssumption

LEMMA InitParser == Init => ParserInv
<1> SUFFICES ASSUME Init PROVE ParserInv
  OBVIOUS
<1> USE FieldsAssumption DEF Init, Members, Null
<1>1. Len(sentence.filled) \in 0..MaxFields
  BY SentenceText
<1>2. TypeOK
  BY DEF TypeOK
<1>3. ContextInv /\ CountInv /\ StepInv /\ FixInv
  BY <1>1 DEF ContextInv, CountInv, StepInv, FixInv
<1>4. Aligned /\ NullOnlyWithoutFix /\ FixNotFromMode
  BY DEF Aligned, NullOnlyWithoutFix, FixNotFromMode
<1> QED
  BY <1>2, <1>3, <1>4 DEF ParserInv

\* The steps before the fields: the count leaves twelve or thirteen fields and the context
\* at the first.
LEMMA BeforeFields ==
  ASSUME ParserInv, CheckSum \/ Dispatch \/ CountTokens
  PROVE  ParserInv'
<1> USE FieldsAssumption
<1>1. TypeOK /\ ContextInv /\ CountInv /\ UNCHANGED <<sentence, member, got>>
  BY DEF ParserInv, CheckSum, Dispatch, CountTokens
<1>2. /\ Len(sentence.filled) \in 0..MaxFields /\ sentence.filled \in Texts(MaxFields)
      /\ sentence.filled \in [1..Len(sentence.filled) -> BOOLEAN]
      /\ sentence.type \in {"RMC", "GGA", "other"}
  BY <1>1, SentenceText DEF TypeOK
<1>3. pc \in {"sum", "type", "count"} /\ member = 1 /\ got = [m \in Members |-> 0]
  BY <1>1 DEF CheckSum, Dispatch, CountTokens, CountInv
<1>4. CASE CheckSum
  <2>1. pc' \in {"dropped", "type"} /\ context' = context
    BY <1>4 DEF CheckSum
  <2> QED
    BY <1>1, <1>3, <2>1 DEF ParserInv, TypeOK, ContextInv, CountInv, StepInv, FixInv, Aligned,
       NullOnlyWithoutFix, FixNotFromMode, LastMember, FixGiven
<1>5. CASE Dispatch
  <2>1. /\ pc' \in {"dropped", "crashed", "count"} /\ context' = context
        /\ pc' = "crashed" => Len(sentence.filled) = 0
        /\ pc' = "count" => Len(sentence.filled) # 0
    BY <1>5 DEF Dispatch
  <2> QED
    BY <1>1, <1>3, <2>1 DEF ParserInv, TypeOK, ContextInv, CountInv, StepInv, FixInv, Aligned,
       NullOnlyWithoutFix, FixNotFromMode, LastMember, FixGiven
<1>6. CASE CountTokens
  <2>1. pc = "count" /\ Len(sentence.filled) # 0
    BY <1>1, <1>6 DEF CountTokens, CountInv
  <2>2. CASE NumTok(sentence.filled) = TokensWanted
    <3>1. pc' = "fields" /\ context' = 1
      BY <1>6, <2>2 DEF CountTokens
    <3>2. TokensWanted \in {12, 13} /\ TokensWanted' = TokensWanted /\ LastMember' = LastMember
          /\ LastMember \in {9, 11}
      BY <1>1 DEF TokensWanted, LastMember, RmcMembers, GgaMembers
    <3>3. \/ Len(sentence.filled) = TokensWanted /\ sentence.filled[TokensWanted]
          \/ Len(sentence.filled) = TokensWanted + 1 /\ ~sentence.filled[TokensWanted + 1]
      BY <1>2, <2>1, <2>2, <3>2, NumTokExact
    <3>4. TypeOK' /\ ContextInv'
      BY <1>1, <1>2, <1>3, <3>1, <3>2, <3>3 DEF TypeOK, ContextInv
    <3>5. CountInv'
      BY <1>1, <1>3, <3>1, <3>2, <3>3 DEF CountInv
    <3>6. StepInv'
      BY <1>1, <1>3, <3>1, <3>2 DEF StepInv, Members
    <3>7. FixInv'
      BY <1>1, <1>3, <3>1 DEF FixInv, Members
    <3> QED
      BY <3>1, <3>4, <3>5, <3>6, <3>7 DEF ParserInv, Aligned, NullOnlyWithoutFix, FixNotFromMode
  <2>3. CASE NumTok(sentence.filled) # TokensWanted
    <3>1. pc' = "dropped" /\ context' = context
      BY <1>6, <2>3 DEF CountTokens
    <3> QED
      BY <1>1, <1>3, <3>1 DEF ParserInv, TypeOK, ContextInv, CountInv, StepInv, FixInv, Aligned,
         NullOnlyWithoutFix, FixNotFromMode, LastMember, FixGiven
  <2> QED
    BY <2>2, <2>3
<1> QED
  BY <1>4, <1>5, <1>6

\* A null context is met out of step only.
LEMMA AtNull ==
  ASSUME ParserInv, FollowNull
  PROVE  ParserInv'
<1>1. TypeOK /\ ContextInv /\ StepInv /\ CountInv /\ pc = "fields" /\ context = Null
      /\ pc' = "crashed" /\ UNCHANGED <<sentence, context, member, got>>
  BY DEF ParserInv, FollowNull, ContextMissing
<1>2. ~FixGiven
  BY <1>1 DEF StepInv, CountInv, TypeOK, Null
<1>3. NullOnlyWithoutFix'
  BY <1>1, <1>2 DEF NullOnlyWithoutFix, FixGiven
<1> QED
  BY <1>1, <1>3 DEF ParserInv, TypeOK, ContextInv, CountInv, StepInv, FixInv, Aligned,
     FixNotFromMode

\* The text and what points into it.
LEMMA TextRead ==
  ASSUME TypeOK, ContextInv
  PROVE  /\ sentence.filled \in Texts(MaxFields)
         /\ Len(sentence.filled) \in 0..MaxFields
         /\ sentence.filled \in [1..Len(sentence.filled) -> BOOLEAN]
         /\ context \in 0..Len(sentence.filled)
<1>1. /\ sentence.filled \in Texts(MaxFields) /\ Len(sentence.filled) \in 0..MaxFields
      /\ sentence.filled \in [1..Len(sentence.filled) -> BOOLEAN]
  BY SentenceText DEF TypeOK
<1>2. context \in 0..MaxFields /\ context <= Len(sentence.filled)
  BY DEF TypeOK, ContextInv
<1>3. context \in 0..Len(sentence.filled)
  BY <1>1, <1>2, FieldsAssumption
<1> QED
  BY <1>1, <1>3

\* The members of the sentence, which the count has shown to be fewer than its fields.
LEMMA MembersRead ==
  ASSUME TypeOK, CountInv, pc = "fields"
  PROVE  /\ member \in 1..LastMember
         /\ LastMember \in {9, 11}
         /\ LastMember < Len(sentence.filled)
<1>1. \/ sentence.type = "RMC" /\ TokensWanted = 12 /\ LastMember = 11
      \/ sentence.type # "RMC" /\ TokensWanted = 13 /\ LastMember = 9
  BY DEF TokensWanted, LastMember, RmcMembers, GgaMembers
<1>2. Len(sentence.filled) = TokensWanted \/ Len(sentence.filled) = TokensWanted + 1
  BY DEF CountInv
<1>3. member \in 1..LastMember
  BY DEF CountInv
<1> QED
  BY <1>1, <1>2, <1>3

\* An RMC sentence counted has twelve fields, or an empty thirteenth.
LEMMA RmcRead ==
  ASSUME CountInv, pc = "fields", sentence.type = "RMC"
  PROVE  /\ LastMember = 11 /\ Untested = {2}
         /\ \/ Len(sentence.filled) = 12
            \/ Len(sentence.filled) = 13 /\ ~sentence.filled[13]
<1>1. TokensWanted = 12
  BY DEF TokensWanted
<1>2. \/ Len(sentence.filled) = 12
      \/ Len(sentence.filled) = 13 /\ ~sentence.filled[13]
  BY <1>1 DEF CountInv
<1> QED
  BY <1>2 DEF LastMember, RmcMembers, Untested

\* In step, reading a member moves the context on by one and reads the member's own field.
LEMMA InStepEffect ==
  ASSUME ParserInv, SkipMember \/ TakeMember, context = member, FixGiven \/ member # 2
  PROVE  /\ context' = member + 1
         /\ got' = IF sentence.filled[member] THEN [got EXCEPT ![member] = member] ELSE got
<1> USE FieldsAssumption
<1>1. pc = "fields"
  BY DEF SkipMember, TakeMember
<1>2. TypeOK /\ ContextInv /\ CountInv
  BY DEF ParserInv
<1>3. sentence.filled \in Texts(MaxFields) /\ Len(sentence.filled) \in 0..MaxFields
  BY <1>2, TextRead
<1>4. member \in 1..LastMember /\ LastMember \in {9, 11} /\ LastMember < Len(sentence.filled)
  BY <1>1, <1>2, MembersRead
<1>5. member \in 1..(Len(sentence.filled) - 1) /\ Len(sentence.filled) \in Nat
  BY <1>3, <1>4
<1>6. member \in Untested => sentence.filled[member]
  BY DEF FixGiven, Untested
<1>7. /\ sentence.filled \in Texts(MaxFields) /\ member \in 1..(Len(sentence.filled) - 1)
      /\ Len(sentence.filled) \in Nat
      /\ member \in Untested => sentence.filled[member]
  BY <1>3, <1>5, <1>6
<1>8. CASE sentence.filled[member]
  <2>1. ~DelimiterAhead(sentence.filled, context)
    BY <1>8 DEF DelimiterAhead
  <2>2. PICK t \in 0..Len(sentence.filled) :
          /\ IsToken(sentence.filled, context, t)
          /\ context' = ContextAfter(sentence.filled, t)
          /\ got' = IF t # Null THEN [got EXCEPT ![member] = t] ELSE got
    BY <2>1 DEF SkipMember, TakeMember
  <2>3. t = member /\ context' = member + 1
    BY <1>7, <1>8, <2>2, TokenHere
  <2> QED
    BY <1>7, <1>8, <2>2, <2>3 DEF Null
<1>9. CASE ~sentence.filled[member]
  <2>1. DelimiterAhead(sentence.filled, context) /\ member \notin Untested
    BY <1>7, <1>9 DEF DelimiterAhead
  <2>2. context' = context + 1 /\ got' = got
    BY <2>1 DEF SkipMember, TakeMember
  <2> QED
    BY <1>9, <2>2
<1> QED
  BY <1>8, <1>9

\* Anywhere, the context stays in the text or becomes null, and a null one, or one at an
\* empty last field, stays or becomes null; only the member read changes.
LEMMA AnyEffect ==
  ASSUME ParserInv, SkipMember \/ TakeMember
  PROVE  /\ context' \in 0..Len(sentence.filled)
         /\ \E t \in 0..Len(sentence.filled) :
              /\ got' = IF t # 0 THEN [got EXCEPT ![member] = t] ELSE got
              /\ t # 0 => sentence.filled[t]
                          /\ context' = IF t = Len(sentence.filled) THEN 0 ELSE t + 1
         /\ context = 0 => context' = 0
         /\ context = Len(sentence.filled) /\ ~sentence.filled[context] => context' = 0
<1> USE FieldsAssumption
<1>1. pc = "fields"
  BY DEF SkipMember, TakeMember
<1>2. TypeOK /\ ContextInv
  BY DEF ParserInv
<1>3. /\ sentence.filled \in Texts(MaxFields) /\ Len(sentence.filled) \in Nat
      /\ context \in 0..Len(sentence.filled)
  BY <1>2, TextRead
<1>4. CASE SkipMember
  <2>1. context \in 1..(Len(sentence.filled) - 1) /\ context' = context + 1 /\ got' = got
    BY <1>4 DEF SkipMember, DelimiterAhead
  <2> QED
    BY <1>3, <2>1
<1>5. CASE TakeMember
  <2>1. PICK t \in 0..Len(sentence.filled) :
          /\ IsToken(sentence.filled, context, t)
          /\ context' = ContextAfter(sentence.filled, t)
          /\ got' = IF t # Null THEN [got EXCEPT ![member] = t] ELSE got
    BY <1>5 DEF TakeMember
  <2>2. /\ context' \in 0..Len(sentence.filled)
        /\ t # 0 => sentence.filled[t] /\ context # 0 /\ context <= t
        /\ context' = IF t \in {0, Len(sentence.filled)} THEN 0 ELSE t + 1
    BY <1>3, <2>1, TokenAhead DEF Null
  <2>3. context = Len(sentence.filled) /\ ~sentence.filled[context] => t = 0
    BY <1>3, <2>2
  <2> QED
    BY <1>3, <2>1, <2>2, <2>3 DEF Null
<1> QED
  BY <1>4, <1>5

LEMMA AtMember ==
  ASSUME ParserInv, SkipMember \/ TakeMember
  PROVE  ParserInv'
<1> USE FieldsAssumption
<1>1. /\ pc = "fields" /\ sentence' = sentence /\ member' = member + 1
      /\ pc' = IF member = LastMember THEN "message" ELSE "fields"
  BY DEF SkipMember, TakeMember, NextMember
<1>2. /\ TypeOK /\ ContextInv /\ CountInv /\ StepInv /\ FixInv
      /\ LastMember' = LastMember /\ TokensWanted' = TokensWanted /\ FixGiven' = FixGiven
  BY <1>1 DEF ParserInv, LastMember, TokensWanted, FixGiven
<1>3. /\ member \in 1..LastMember /\ LastMember \in {9, 11}
      /\ LastMember < Len(sentence.filled)
  BY <1>1, <1>2, MembersRead
<1>4. /\ Len(sentence.filled) \in 0..MaxFields /\ got \in [Members -> 0..MaxFields]
       /\ context \in 0..Len(sentence.filled)
  BY <1>2, TextRead DEF TypeOK
<1>5. member \in Members /\ \A m \in 1..LastMember : m \in Members
  BY <1>3 DEF Members
<1>6. PICK t \in 0..Len(sentence.filled) :
        /\ got' = IF t # 0 THEN [got EXCEPT ![member] = t] ELSE got
        /\ t # 0 => sentence.filled[t]
                    /\ context' = IF t = Len(sentence.filled) THEN 0 ELSE t + 1
  BY AnyEffect
<1>7. /\ context' \in 0..Len(sentence.filled)
      /\ context = 0 => context' = 0
      /\ context = Len(sentence.filled) /\ ~sentence.filled[context] => context' = 0
  BY AnyEffect
<1>8. TypeOK'
  <2>1. got' \in [Members -> 0..MaxFields]
    BY <1>6, <1>4, <1>5
  <2>2. context' \in 0..MaxFields /\ member' \in 1..12
    BY <1>1, <1>3, <1>7, <1>4
  <2> QED
    BY <1>1, <1>2, <2>1, <2>2 DEF TypeOK
<1>9. ContextInv' /\ CountInv'
  BY <1>1, <1>2, <1>3, <1>7 DEF ContextInv, CountInv
<1>10. ASSUME FixGiven \/ member < 2
      PROVE  /\ context' = member + 1
             /\ \A m \in 1..member : got'[m] = IF sentence.filled[m] THEN m ELSE 0
             /\ \A m \in (member + 1)..LastMember : got'[m] = 0
  <2>1. /\ context = member
        /\ \A m \in 1..(member - 1) : got[m] = IF sentence.filled[m] THEN m ELSE 0
        /\ \A m \in member..LastMember : got[m] = 0
    BY <1>1, <1>2, <1>3, <1>10 DEF StepInv
  <2>2. /\ context' = member + 1
        /\ got' = IF sentence.filled[member] THEN [got EXCEPT ![member] = member] ELSE got
    BY <1>3, <1>10, <2>1, InStepEffect
  <2>3. /\ \A m \in Members \ {member} : got'[m] = got[m]
        /\ got'[member] = IF sentence.filled[member] THEN member ELSE 0
    <3>1. member \in Members /\ got[member] = 0 /\ got \in [Members -> 0..MaxFields]
      BY <1>3, <1>4, <1>5, <2>1
    <3> QED
      BY <2>2, <3>1
  <2>4. \A m \in 1..member : got'[m] = IF sentence.filled[m] THEN m ELSE 0
    <3> SUFFICES ASSUME NEW m \in 1..member
                 PROVE  got'[m] = IF sentence.filled[m] THEN m ELSE 0
      OBVIOUS
    <3>1. CASE m = member
      BY <2>3, <3>1
    <3>2. CASE m # member
      <4>1. m \in Members \ {member} /\ m \in 1..(member - 1)
        BY <1>3, <1>5, <3>2 DEF Members
      <4> QED
        BY <2>1, <2>3, <4>1
    <3> QED
      BY <3>1, <3>2
  <2>5. \A m \in (member + 1)..LastMember : got'[m] = 0
    <3> SUFFICES ASSUME NEW m \in (member + 1)..LastMember PROVE got'[m] = 0
      OBVIOUS
    <3>1. m \in Members \ {member} /\ m \in member..LastMember
      BY <1>3, <1>5
    <3> QED
      BY <2>1, <2>3, <3>1
  <2> QED
    BY <2>2, <2>4, <2>5
<1>11. StepInv'
  BY <1>1, <1>2, <1>3, <1>10 DEF StepInv
<1>12. Aligned'
  BY <1>1, <1>2, <1>3, <1>10 DEF Aligned
<1>13. FixInv' /\ FixNotFromMode'
  <2>1. CASE member = 1
    BY <1>1, <1>2, <1>3, <1>10, <2>1 DEF FixInv, FixNotFromMode
  <2>2. CASE member = 2
    <3>1. got[2] = 0
      BY <1>1, <1>2, <1>3, <2>2 DEF StepInv
    <3>2. sentence.type = "RMC" /\ got'[2] >= 12 =>
            context' = 0 \/ (context' = Len(sentence.filled) /\ ~sentence.filled[context'])
      <4>1. SUFFICES ASSUME sentence.type = "RMC", got'[2] >= 12
                     PROVE  \/ context' = 0
                            \/ context' = Len(sentence.filled) /\ ~sentence.filled[context']
        OBVIOUS
      <4>2. t # 0 /\ got'[2] = t
        BY <1>6, <1>4, <1>5, <2>2, <3>1, <4>1
      <4>3. Len(sentence.filled) = 12 \/ (Len(sentence.filled) = 13 /\ ~sentence.filled[13])
        BY <1>1, <1>2, <4>1, RmcRead
      <4>4. t \in Nat /\ t >= 12 /\ sentence.filled[t]
            /\ context' = IF t = Len(sentence.filled) THEN 0 ELSE t + 1
        BY <1>6, <1>4, <4>1, <4>2
      <4>5. CASE Len(sentence.filled) = 12
        BY <4>4, <4>5
      <4>6. CASE Len(sentence.filled) = 13 /\ ~sentence.filled[13]
        <5>1. t # 13
          BY <4>4, <4>6
        <5>2. t = 12 /\ context' = 13
          BY <4>4, <4>6, <5>1
        <5> QED
          BY <4>6, <5>2
      <4> QED
        BY <4>3, <4>5, <4>6
    <3> QED
      BY <1>1, <1>2, <1>3, <2>2, <3>2 DEF FixInv, FixNotFromMode, Null
  <2>3. CASE member > 2
    <3>1. got'[2] = got[2]
      BY <1>3, <1>6, <1>4, <1>5, <2>3 DEF Members
    <3>2. sentence.type = "RMC" /\ got[2] >= 12 => member = 3 /\ context' = 0
      <4>1. SUFFICES ASSUME sentence.type = "RMC", got[2] >= 12 PROVE member = 3 /\ context' = 0
        OBVIOUS
      <4>2. \/ member = 3 /\ context = 0
            \/ member = 3 /\ context = Len(sentence.filled) /\ ~sentence.filled[context]
            \/ member = 4 /\ context = 0
        BY <1>1, <1>2, <4>1 DEF FixInv, Null
      <4>3. context # 0 \/ member \in Untested
        BY <1>1 DEF SkipMember, TakeMember, ContextMissing, DelimiterAhead, Null
      <4>4. Untested = {2}
        BY <4>1 DEF Untested
      <4> QED
        BY <1>7, <4>2, <4>3, <4>4
    <3>3. FixInv'
      BY <1>1, <3>1, <3>2 DEF FixInv, Null
    <3>4. sentence.type = "RMC" /\ member = LastMember => ~(got[2] >= 12)
      BY <1>3, <3>2
    <3>5. got[2] \in 0..MaxFields
      BY <1>4 DEF Members
    <3>6. FixNotFromMode'
      BY <1>1, <3>1, <3>4, <3>5 DEF FixNotFromMode
    <3> QED
      BY <3>3, <3>6
  <2> QED
    BY <1>3, <2>1, <2>2, <2>3
<1>14. NullOnlyWithoutFix'
  BY <1>1 DEF NullOnlyWithoutFix
<1> QED
  BY <1>8, <1>9, <1>11, <1>12, <1>13, <1>14 DEF ParserInv

LEMMA NextParser == ParserInv /\ [Next]_vars => ParserInv'
<1> SUFFICES ASSUME ParserInv, [Next]_vars PROVE ParserInv'
  OBVIOUS
<1>1. CASE CheckSum \/ Dispatch \/ CountTokens
  BY <1>1, BeforeFields
<1>2. CASE FollowNull
  BY <1>2, AtNull
<1>3. CASE SkipMember \/ TakeMember
  BY <1>3, AtMember
<1>4. CASE UNCHANGED vars
  BY <1>4 DEF vars, ParserInv, TypeOK, ContextInv, CountInv, StepInv, FixInv, Aligned,
     NullOnlyWithoutFix, FixNotFromMode, LastMember, TokensWanted, FixGiven
<1> QED
  BY <1>1, <1>2, <1>3, <1>4 DEF Next

LEMMA ParserAlways == Spec => []ParserInv
BY InitParser, NextParser, PTL DEF Spec

\* Every variable of the parser keeps its type.
THEOREM TypeCorrect == Spec => []TypeOK
<1>1. ParserInv => TypeOK
  BY DEF ParserInv
<1> QED
  BY <1>1, ParserAlways, PTL

\* Each member of an accepted message comes from its own field, for sentences of any
\* length with any fields empty but the fix.
THEOREM AlignedCorrect == Spec => []Aligned
<1>1. ParserInv => Aligned
  BY DEF ParserInv
<1> QED
  BY <1>1, ParserAlways, PTL

\* Parse runs out of fields only in a sentence without a fix field.
THEOREM NullOnlyWithoutFixCorrect == Spec => []NullOnlyWithoutFix
<1>1. ParserInv => NullOnlyWithoutFix
  BY DEF ParserInv
<1> QED
  BY <1>1, ParserAlways, PTL

\* The mode never passes for the fix.
THEOREM FixNotFromModeCorrect == Spec => []FixNotFromMode
<1>1. ParserInv => FixNotFromMode
  BY DEF ParserInv
<1> QED
  BY <1>1, ParserAlways, PTL

-----------------------------------------------------------------------------
(* The configuration file.                                                 *)

LEMMA FileType ==
  ASSUME file \in Files
  PROVE  file \in Seq(Pieces) /\ Len(file) \in 0..MaxPieces
<1>1. PICK n \in 0..MaxPieces : file \in [1..n -> Pieces]
  BY DEF Files
<1> QED
  BY <1>1, PiecesAssumption

\* The variables keep their types (config.cpp:10-122).
THEOREM ConfigTypeCorrect == ConfigSpec => []ConfigTypeOK
<1>1. ConfigInit => ConfigTypeOK
  <2> SUFFICES ASSUME ConfigInit PROVE ConfigTypeOK
    OBVIOUS
  <2>1. opened \in BOOLEAN /\ found \in BOOLEAN
    BY Zenon DEF ConfigInit
  <2> QED
    BY <2>1, PiecesAssumption DEF ConfigInit, ConfigTypeOK, Keys, Places
<1>2. ConfigTypeOK /\ [ConfigNext]_configVars => ConfigTypeOK'
  <2> SUFFICES ASSUME ConfigTypeOK, [ConfigNext]_configVars PROVE ConfigTypeOK'
    OBVIOUS
  <2> USE DEF ConfigTypeOK
  <2>1. file \in Seq(Pieces) /\ Len(file) \in 0..MaxPieces
    BY FileType
  <2>2. CASE ReadItemInt
    BY <2>1, <2>2, PiecesAssumption DEF ReadItemInt, NextItem, Rewound, Keys, Places
  <2>3. CASE ReadItem
    <3>1. found' \in BOOLEAN /\ opened' \in BOOLEAN
      BY <2>3, Zenon DEF ReadItem
    <3> QED
      BY <2>1, <2>3, <3>1, PiecesAssumption DEF ReadItem, NextItem, Rewound, Keys, Places
  <2>4. CASE UNCHANGED configVars
    BY <2>4 DEF configVars
  <2> QED
    BY <2>2, <2>3, <2>4 DEF ConfigNext
<1> QED
  BY <1>1, <1>2, PTL DEF ConfigSpec

-----------------------------------------------------------------------------
\* In a plain file the code's test of a piece is what the piece means.
LEMMA TestIsMeaning ==
  ASSUME file \in Files, Plain, NEW i \in 1..Len(file)
  PROVE  /\ IsItem(file[i], "ReportingInterval") /\ IsNum(file[i])
              <=> Means(file[i], "ReportingInterval")
         /\ IsItem(file[i], "DeviceKey") <=> Means(file[i], "DeviceKey")
<1>1. file[i] \in Pieces
  BY FileType
<1>2. file[i].value \in {"none", "number", "text"}
  BY <1>1 DEF Pieces
<1>3. file[i].starts /\ file[i].word \notin {"R", "D"}
  BY DEF Plain
<1> QED
  BY <1>2, <1>3 DEF IsItem, IsNum, Means, StrEqualNoCase, Beginning

\* No piece before the present one is meant by the key looked for.
NoneBefore(key) == \A i \in 1..(place - 1) : ~Means(file[i], key)

SearchInv ==
  opened /\ Plain =>
    /\ wanted = "ReportingInterval" => interval = 0 /\ deviceKey = 0 /\ ~found
    /\ wanted = "DeviceKey" =>
         IsMeant(interval, "ReportingInterval") /\ deviceKey = 0 /\ ~found
    /\ wanted # "end" => place <= Len(file) + 1 /\ NoneBefore(wanted)
    /\ wanted = "end" =>
         /\ IsMeant(interval, "ReportingInterval") /\ IsMeant(deviceKey, "DeviceKey")
         /\ found = (deviceKey # 0)

LEMMA IntervalStep ==
  ASSUME ConfigTypeOK, SearchInv, ReadItemInt
  PROVE  SearchInv'
<1> SUFFICES ASSUME opened, Plain PROVE SearchInv'
  BY DEF SearchInv, Plain, ReadItemInt
<1> USE DEF ConfigTypeOK
<1>1. /\ wanted = "ReportingInterval" /\ file' = file
      /\ opened' = opened /\ deviceKey' = deviceKey /\ found' = found
      /\ interval = 0 /\ deviceKey = 0 /\ ~found
      /\ place <= Len(file) + 1 /\ NoneBefore("ReportingInterval")
  BY DEF ReadItemInt, SearchInv
<1>2. Len(file) \in Nat /\ place \in Nat /\ place >= 1
  BY FileType, PiecesAssumption
<1>3. CASE place > Len(file)
  <2>1. place = Len(file) + 1
    BY <1>1, <1>2, <1>3
  <2>2. wanted' = "DeviceKey" /\ place' = 1 /\ interval' = 0
    BY <1>1, <1>3 DEF ReadItemInt, NextItem, Rewound
  <2>3. IsMeant(0, "ReportingInterval")
    BY <1>1, <1>2, <2>1 DEF NoneBefore, IsMeant
  <2> QED
    BY <1>1, <1>2, <2>2, <2>3 DEF SearchInv, IsMeant, NoneBefore, Means
<1>4. CASE place <= Len(file) /\ Means(file[place], "ReportingInterval")
  <2>1. IsItem(file[place], wanted) /\ IsNum(file[place])
    BY <1>1, <1>2, <1>4, TestIsMeaning
  <2>2. wanted' = "DeviceKey" /\ place' = 1 /\ interval' = place
    BY <1>1, <1>2, <1>4, <2>1 DEF ReadItemInt, NextItem, Rewound
  <2>3. IsMeant(place, "ReportingInterval")
    BY <1>1, <1>2, <1>4 DEF NoneBefore, IsMeant
  <2> QED
    BY <1>1, <1>2, <2>2, <2>3 DEF SearchInv, IsMeant, NoneBefore, Means
<1>5. CASE place <= Len(file) /\ ~Means(file[place], "ReportingInterval")
  <2>1. ~(IsItem(file[place], wanted) /\ IsNum(file[place]))
    BY <1>1, <1>2, <1>5, TestIsMeaning
  <2>2. wanted' = wanted /\ place' = place + 1 /\ interval' = interval
    BY <1>1, <1>2, <1>5, <2>1 DEF ReadItemInt
  <2>3. NoneBefore("ReportingInterval")'
    BY <1>1, <1>2, <1>5, <2>2 DEF NoneBefore, Means
  <2> QED
    BY <1>1, <1>2, <1>5, <2>2, <2>3 DEF SearchInv
<1> QED
  BY <1>2, <1>3, <1>4, <1>5

LEMMA KeyStep ==
  ASSUME ConfigTypeOK, SearchInv, ReadItem
  PROVE  SearchInv'
<1> SUFFICES ASSUME opened, Plain PROVE SearchInv'
  BY DEF SearchInv, Plain, ReadItem
<1> USE DEF ConfigTypeOK
<1>1. /\ wanted = "DeviceKey" /\ file' = file
      /\ opened' = opened /\ interval' = interval
      /\ IsMeant(interval, "ReportingInterval") /\ deviceKey = 0 /\ ~found
      /\ place <= Len(file) + 1 /\ NoneBefore("DeviceKey")
  BY DEF ReadItem, SearchInv
<1>2. Len(file) \in Nat /\ place \in Nat /\ place >= 1
  BY FileType, PiecesAssumption
<1>3. IsMeant(interval, "ReportingInterval")'
  BY <1>1 DEF IsMeant, Means
<1>4. CASE place > Len(file)
  <2>1. place = Len(file) + 1
    BY <1>1, <1>2, <1>4
  <2>2. wanted' = "end" /\ deviceKey' = 0
    BY <1>1, <1>4 DEF ReadItem, NextItem
  <2>3. found' = FALSE
    <3>1. found' = found
      BY <1>4, Zenon DEF ReadItem
    <3> QED
      BY <1>1, <3>1, Zenon
  <2>4. IsMeant(0, "DeviceKey")
    BY <1>1, <1>2, <2>1 DEF NoneBefore, IsMeant
  <2>5. IsMeant(deviceKey, "DeviceKey")'
    BY <1>1, <2>2, <2>4 DEF IsMeant, Means
  <2> QED
    BY <1>3, <2>2, <2>3, <2>5 DEF SearchInv
<1>5. CASE place <= Len(file) /\ Means(file[place], "DeviceKey")
  <2>1. IsItem(file[place], wanted)
    BY <1>1, <1>2, <1>5, TestIsMeaning
  <2>2. wanted' = "end" /\ deviceKey' = place /\ found' = TRUE
    BY <1>1, <1>2, <1>5, <2>1 DEF ReadItem, NextItem
  <2>3. IsMeant(place, "DeviceKey") /\ place # 0
    BY <1>1, <1>2, <1>5 DEF NoneBefore, IsMeant
  <2>4. IsMeant(deviceKey, "DeviceKey")' /\ found' = (deviceKey' # 0)
    BY <1>1, <2>2, <2>3 DEF IsMeant, Means
  <2> QED
    BY <1>3, <2>2, <2>4 DEF SearchInv
<1>6. CASE place <= Len(file) /\ ~Means(file[place], "DeviceKey")
  <2>1. ~IsItem(file[place], wanted)
    BY <1>1, <1>2, <1>6, TestIsMeaning
  <2>2. wanted' = wanted /\ place' = place + 1 /\ deviceKey' = deviceKey /\ found' = found
    BY <1>1, <1>2, <1>6, <2>1 DEF ReadItem
  <2>3. NoneBefore("DeviceKey")'
    BY <1>1, <1>2, <1>6, <2>2 DEF NoneBefore, Means
  <2> QED
    BY <1>1, <1>2, <1>3, <1>6, <2>2, <2>3 DEF SearchInv
<1> QED
  BY <1>2, <1>4, <1>5, <1>6

\* celluploader gets both settings a plain file gives it (config.cpp:22-101,
\* celluploader/main.cpp:110-120).
THEOREM ReadsAsWrittenCorrect == ConfigSpec => []ReadsAsWritten
<1>1. ConfigInit => SearchInv
  BY FileType DEF ConfigInit, SearchInv, NoneBefore
<1>2. ConfigTypeOK /\ SearchInv /\ [ConfigNext]_configVars => SearchInv'
  <2> SUFFICES ASSUME ConfigTypeOK, SearchInv, UNCHANGED configVars PROVE SearchInv'
    BY IntervalStep, KeyStep DEF ConfigNext
  <2> QED
    BY DEF SearchInv, configVars, Plain, NoneBefore, IsMeant, Means
<1>3. SearchInv => ReadsAsWritten
  BY DEF SearchInv, ReadsAsWritten
<1> QED
  BY <1>1, <1>2, <1>3, ConfigTypeCorrect, PTL DEF ConfigSpec
=============================================================================
