-------------------------------- MODULE LogFile -------------------------------
(***************************************************************************)
(* What Logger does with its file, as the rest of the process sees it:     *)
(* a file is open, was closed, or could not be opened.                     *)
(***************************************************************************)
CONSTANT Commands   \* the shell commands that are given

VARIABLES
  fid,    \* _log_fid_t: NULL, an open file, or one that was closed
  turn    \* what the logger thread does next, or "lost"

Init == fid = "NULL" /\ turn = "open"

\* The logger thread opens its first file, or the next.
Open ==
  /\ turn = "open"
  /\ fid' \in {"open", "NULL"}
  /\ turn' = "write"

\* So does a shell command, whatever is open.
ShellOpen ==
  /\ "start" \in Commands
  /\ turn # "lost"
  /\ fid' \in {"open", "NULL"}
  /\ UNCHANGED turn

\* The period of a file is over.
Rotate ==
  /\ turn = "write" /\ fid = "open"
  /\ fid' = "closed"
  /\ turn' = "open"

\* Logging was stopped, or losses have cleared its flag.
Stop ==
  /\ turn = "write" /\ fid = "open"
  /\ fid' = "closed"
  /\ UNCHANGED turn

\* A file that is not open is written to or closed, and the thread is lost.
Misuse ==
  /\ turn = "write" /\ fid # "open"
  /\ turn' = "lost"
  /\ UNCHANGED fid

Next == Open \/ ShellOpen \/ Rotate \/ Stop \/ Misuse

Spec == Init /\ [][Next]_<<fid, turn>>
==============================================================================
