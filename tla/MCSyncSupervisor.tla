-------------------------- MODULE MCSyncSupervisor --------------------------
(* One vault: supervisors share nothing but the clock and the context, and *)
(* SyncReady is the conjunction of what each has recorded.                 *)
EXTENDS SyncSupervisor
=============================================================================
