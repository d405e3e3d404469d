------------------------------- MODULE UbxWatch ------------------------------
(***************************************************************************)
(* UbxParser with an observer of the bytes, who may take any byte for the  *)
(* first of a frame and collects what follows.                             *)
(***************************************************************************)
EXTENDS UbxParser

VARIABLE watched   \* the bytes since the observer started

WatchInit == Init /\ watched = <<>>

\* The observer starts with a sync byte and goes on to the end of a frame.
Watch(ch) ==
  \/ ch = SyncChar1 /\ watched' = <<ch>>
  \/ watched # <<>> /\ Len(watched) < FrameLength /\ watched' = Append(watched, ch)
  \/ watched' = <<>>

WatchNext == \E ch \in Char : ParseChar(ch) /\ Watch(ch)

WatchSpec == WatchInit /\ [][WatchNext]_<<vars, watched>>

\* ublox_analys gets the newest frame, parses it and publishes its data
\* (ublox.c:260): when the bytes received end in a frame, that frame has been
\* published.
NewestFramePublished == IsFrame(watched) => fresh
==============================================================================
