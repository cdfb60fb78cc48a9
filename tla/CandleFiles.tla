----------------------------- MODULE CandleFiles -----------------------------
(***************************************************************************)
(* The snapshot files of the kline service: internal/store/file.go.        *)
(*                                                                         *)
(* Each pair has a JSON file and, beside it, the temporary file SaveFile   *)
(* writes first.  A file is absent, torn (os.WriteFile has truncated it    *)
(* and has not written all of it) or whole.  The process may be killed     *)
(* between any two steps; the files stay as they are.                      *)
(***************************************************************************)
EXTENDS CandleStore

VARIABLES
  file,                     \* key -> the JSON file at filePathForEntry
  tmp                       \* key -> path + ".tmp"

fileVars == <<file, tmp>>

FileState == [st : {"none", "torn", "whole"}, list : Seq(Candle)]

NoFile == [st |-> "none", list |-> <<>>]
TornFile == [st |-> "torn", list |-> <<>>]
WholeFile(s) == [st |-> "whole", list |-> s]

FilesTypeOK ==
  /\ file \in [AllKeys -> FileState]
  /\ tmp \in [AllKeys -> FileState]

-----------------------------------------------------------------------------
\* LoadFile: an absent file is an empty list, and so is one that does not
\* decode (the caller logs the error and goes on with the empty value).
LoadFile(k) == IF file[k].st = "whole" THEN file[k].list ELSE <<>>

\* SaveFile, step by step.  os.WriteFile opens the temporary file with
\* O_TRUNC ...
TruncateTmp(k) ==
  /\ tmp' = [tmp EXCEPT ![k] = TornFile]
  /\ UNCHANGED file

\* ... and fills it;
FillTmp(k, s) ==
  /\ tmp' = [tmp EXCEPT ![k] = WholeFile(s)]
  /\ UNCHANGED file

\* os.Rename then replaces the JSON file by it in one step,
RenameTmp(k) ==
  /\ file' = [file EXCEPT ![k] = tmp[k]]
  /\ tmp' = [tmp EXCEPT ![k] = NoFile]

\* or fails, and os.Remove, whose own error is ignored, may or may not
\* delete the temporary file.
RemoveTmp(k) ==
  /\ \/ tmp' = [tmp EXCEPT ![k] = NoFile]
     \/ UNCHANGED tmp
  /\ UNCHANGED file
=============================================================================
