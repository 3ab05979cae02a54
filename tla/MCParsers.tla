----------------------------- MODULE MCParsers ------------------------------
(* The parsers of text, each on every small input: a sentence for gpslogger *)
(* or a configuration file for celluploader.  They have nothing in common,  *)
(* so a behaviour runs one of them and leaves the other where it is.        *)
EXTENDS NmeaParser, Config

NoFile == file = <<>> /\ opened = FALSE /\ wanted = "end" /\ place = 1
          /\ interval = 0 /\ deviceKey = 0 /\ found = FALSE
NoSentence == pc = "dropped" /\ sentence = [type |-> "other", filled |-> <<>>, sum |-> "none"]
              /\ context = Null /\ member = 1 /\ got = [m \in Members |-> 0]

ParsersInit == (Init /\ NoFile) \/ (NoSentence /\ ConfigInit)
ParsersNext == (Next /\ UNCHANGED configVars) \/ (ConfigNext /\ UNCHANGED vars)
ParsersSpec == ParsersInit /\ [][ParsersNext]_<<vars, configVars>>
=============================================================================
