--------------------------- MODULE AtomicArchive ---------------------------
(***************************************************************************)
(* What an archive promises to the scanner: a durable content that only a  *)
(* commit replaces, as a whole, by the content of the process's view.  The *)
(* view is lost when the process ends and starts again from the durable    *)
(* content.  An archive without any file of nonzero size is not kept.      *)
(***************************************************************************)

CONSTANTS
  Entry,    \* what an archive may contain
  Sized     \* the entries with a nonzero uncompressed size

VARIABLES
  content,  \* the durable content, {} when there is no archive
  view,     \* the content the process works on
  up        \* a process has the archive open

absVars == <<content, view, up>>

Kept(es) == IF es \cap Sized = {} THEN {} ELSE es

AbsInit == content = Kept(content) /\ view = {} /\ ~up

Start == /\ ~up /\ up' /\ view' = content
         /\ UNCHANGED content

Edit == /\ up
        /\ \E es \in SUBSET Entry : view' = es
        /\ UNCHANGED <<content, up>>

Commit == /\ up /\ content' = Kept(view)
          /\ UNCHANGED <<view, up>>

Stop == /\ up /\ ~up' /\ view' = {}
        /\ UNCHANGED content

AbsNext == Start \/ Edit \/ Commit \/ Stop

AbsSpec == AbsInit /\ [][AbsNext]_absVars
=============================================================================
