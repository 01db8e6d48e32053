-------------------------- MODULE DiscoverThenBatch --------------------------
(***************************************************************************)
(* Discovery and batch collection on one job.  Each is a command of its    *)
(* own process: they may run at the same time, share the job's pages and   *)
(* nothing else, and the addresses discovery reports are batch input.      *)
(***************************************************************************)
EXTENDS ProgrammeDiscovery, BatchCollection

vars == <<pages, discoveryVars, batchVars>>

Init == PagesInit /\ DiscoveryInit /\ BatchInit

DiscoveryActs == DiscoveryNext /\ UNCHANGED batchVars

BatchActs ==
  /\ \/ \E file \in BatchFiles \cup {reported} : StartBatch(file) /\ UNCHANGED pages
     \/ BatchStep
     \/ BatchDies /\ UNCHANGED pages
  /\ UNCHANGED discoveryVars

Next == DiscoveryActs \/ BatchActs

\* A command that runs keeps running: every fetch has its timeouts.  Nobody
\* has to start one, and none has to die.
Fairness ==
  /\ WF_vars(DiscoveryStep /\ UNCHANGED batchVars)
  /\ WF_vars(BatchStep /\ UNCHANGED discoveryVars)

Spec == Init /\ [][Next]_vars /\ Fairness

(***************************************************************************)
(* Properties                                                              *)
(***************************************************************************)
CollectionTypeOK == PagesTypeOK /\ DiscoveryTypeOK /\ BatchTypeOK

\* Sitemaps and pages that refer to each other, hosts that fail, rows that
\* fail: each command comes to its end all the same.
CommandsEnd == (dpc # "idle" ~> dpc = "idle") /\ (bpc # "idle" ~> bpc = "idle")
=============================================================================
