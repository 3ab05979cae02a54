------------------------------- MODULE Config -------------------------------
(***************************************************************************)
(* The configuration file as celluploader reads it (shared/config.cpp):    *)
(* the reporting interval, then the device key, from one open file.        *)
(*                                                                         *)
(* The file is what fgets makes of it, a sequence of pieces that fit its   *)
(* buffer of 32 bytes: a longer line comes as several pieces, and the code *)
(* takes each of them for a line.  A piece is told apart by whether it     *)
(* starts a line, by its first word, and by what its second word is.  A    *)
(* value read is the number of the piece it came from, 0 for none.         *)
(***************************************************************************)
EXTENDS Integers, Sequences

CONSTANT MaxPieces \* bounds the length of the file
ASSUME PiecesAssumption == MaxPieces \in Nat

VARIABLES
  file,      \* m_file's contents
  opened,    \* m_file is not null
  wanted,    \* the key being looked for, or "end"
  place,     \* the piece fgets returns next: the position in the file
  interval,  \* reportingInterval, 0 for the default
  deviceKey, \* g_deviceKey
  found      \* what ReadItem returned

configVars == <<file, opened, wanted, place, interval, deviceKey, found>>

Keys  == {"ReportingInterval", "DeviceKey"}
Beginning == [ReportingInterval |-> "R", DeviceKey |-> "D"]
\* The first word of a piece: "" in a blank one, "#" in a comment.  A key may be written
\* in capitals or not, and "R" and "D" stand for the words it begins with.
Words == Keys \cup {"", "#", "R", "D", "other"}
Pieces ==
  {p \in [starts : BOOLEAN, word : Words, value : {"none", "number", "text"}] :
     p.word \in {"", "#"} => p.value = "none"}
Files == {f \in UNION {[1..n -> Pieces] : n \in 0..MaxPieces} : f # <<>> => f[1].starts}
Places == 0..MaxPieces

ConfigTypeOK ==
  /\ file \in Files /\ opened \in BOOLEAN
  /\ wanted \in Keys \cup {"end"} /\ place \in 1..(MaxPieces + 1)
  /\ interval \in Places /\ deviceKey \in Places /\ found \in BOOLEAN

\* openFile: opened "a+", so a missing file is an empty one; it fails when the directory
\* is missing.
ConfigInit ==
  /\ file \in Files /\ opened \in BOOLEAN
  /\ wanted = "ReportingInterval" /\ place = 1
  /\ interval = 0 /\ deviceKey = 0 /\ found = FALSE

-----------------------------------------------------------------------------
(* Both functions walk the file in the same way.                           *)

\* Mutated: rewind is left out.
NoRewind == place
Rewound == 1

\* str_equal_nocase compares up to the end of its first argument, the word in the file.
StrEqualNoCase(word, key) == word = key \/ word = Beginning[key]

\* A comment and a blank piece are passed over, and a first word without a second.
IsItem(p, key) ==
  p.word \notin {"", "#"} /\ p.value # "none" /\ StrEqualNoCase(p.word, key)

\* isnum.
IsNum(p) == p.value = "number"

\* The end of the file, or no file: the next key is looked for from the start.
NextItem ==
  /\ wanted' = IF wanted = "ReportingInterval" THEN "DeviceKey" ELSE "end"
  /\ place' = Rewound

\* The value is written into the caller's interval, but the result is false as it is when
\* there is none: the caller logs that it goes with the default.
ReadItemInt ==
  /\ wanted = "ReportingInterval"
  /\ IF ~opened \/ place > Len(file)
       THEN NextItem /\ UNCHANGED interval
       ELSE IF IsItem(file[place], wanted) /\ IsNum(file[place])
         THEN NextItem /\ interval' = place
         ELSE place' = place + 1 /\ UNCHANGED <<wanted, interval>>
  /\ UNCHANGED <<file, opened, deviceKey, found>>

ReadItem ==
  /\ wanted = "DeviceKey"
  /\ IF ~opened \/ place > Len(file)
       THEN NextItem /\ UNCHANGED <<deviceKey, found>>
       ELSE IF IsItem(file[place], wanted)
         THEN NextItem /\ deviceKey' = place /\ found' = TRUE
         ELSE place' = place + 1 /\ UNCHANGED <<wanted, deviceKey, found>>
  /\ UNCHANGED <<file, opened, interval>>

ConfigNext == ReadItemInt \/ ReadItem

ConfigSpec == ConfigInit /\ [][ConfigNext]_configVars

-----------------------------------------------------------------------------
(* Properties.                                                             *)

\* What a reader of the file would say: the first line that names the key and gives it a
\* value of the right sort, 0 when there is none.
Means(p, key) == p.starts /\ p.word = key /\ p.value \in
  IF key = "DeviceKey" THEN {"number", "text"} ELSE {"number"}

IsMeant(n, key) ==
  \/ n \in 1..Len(file) /\ Means(file[n], key) /\ \A i \in 1..(n - 1) : ~Means(file[i], key)
  \/ n = 0 /\ \A i \in 1..Len(file) : ~Means(file[i], key)

\* A file in which every line fits the buffer and no word is the beginning of a key.
Plain == \A i \in 1..Len(file) : file[i].starts /\ file[i].word \notin {"R", "D"}

\* celluploader gets both settings a plain file gives it, in whatever order they come and
\* whatever else is in it, and neither search spoils the other's place in the file they
\* share (config.cpp:22-101, celluploader/main.cpp:110-120).  In other files the rest of a
\* long comment may be read for a setting.
ReadsAsWritten ==
  wanted = "end" /\ opened /\ Plain =>
    /\ IsMeant(interval, "ReportingInterval")
    /\ IsMeant(deviceKey, "DeviceKey") /\ found = (deviceKey # 0)
=============================================================================
