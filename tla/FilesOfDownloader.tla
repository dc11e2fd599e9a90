------------------------- MODULE FilesOfDownloader -------------------------
(***************************************************************************)
(* Downloader, with the store beside it, implements Files: whatever order  *)
(* their system calls take, and whichever fail, each call and each end of  *)
(* the process is, for the directory and for what would last of it, one of *)
(* the outcomes Files gives to it.                                         *)
(***************************************************************************)
EXTENDS Downloader

\* Where the pipeline is in the manager's eyes: the stage it reported last, or
\* what it is going to return.
Label ==
  CASE at \in {"fetch", "clear", "mkwork"} -> "prepare"
    [] at \in {"video", "probeVideo", "audio", "probeAudio", "toConvert"} -> "downloading"
    [] at \in {"convert", "toVerify"} -> "processing"
    [] at \in {"probeOutput", "verified"} -> "verifying"
    [] at \in {"sync", "rename"} -> "publish"
    [] at = "syncDir" -> "succeeded"
    [] at \in {"cleanup", "returned"} -> result
    [] OTHER -> at

Call == CASE op \in SaveSteps -> "save"
          [] op \in RemoveSteps -> "remove"
          [] OTHER -> "idle"

Disk == [dir |-> now.dir, meta |-> now.meta, video |-> now.video # NoVideo]

May == [dir |-> after.dir, meta |-> after.meta,
        video |-> {v # NoVideo : v \in after.video}]

Promised == INSTANCE Files WITH
              disk <- Disk, may <- May,
              op <- Call, last <- saves, label <- Label, done <- ctx

\* The stages come in Manager's order, a cancellation is reported only of a
\* context that is done, a call that fails or that a crash cuts short leaves
\* what Manager gives to it; and a power loss takes no change that a sync has
\* followed, which is why Manager may do without one where every sync succeeds.
ImplementsFiles == Promised!Spec
=============================================================================
