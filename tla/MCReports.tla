------------------------------ MODULE MCReports ------------------------------
(***************************************************************************)
(* The workloads of the life cycle with an inventory request beside them,  *)
(* or, beside two of them, an audit: tickets and seats that a user cancels *)
(* from another session, he confirms, and a competitor wants.              *)
(***************************************************************************)
EXTENDS InventoryReports, MCReservation

AuditedWorkloads ==
  {f \in LifecycleWorkloads : f[2].by = U2 /\ f[4].op # "get"}
=============================================================================
