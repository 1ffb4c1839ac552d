------------------------------ MODULE MCRecords ------------------------------
(* The evidence of a job and the audit log share no state: TLC explores one *)
(* or the other from the common initial state.                             *)
EXTENDS MCEvidenceVault, AuditLog

\* The hash is modelled by its preimage: equal hashes have equal inputs.
MCHash(t, prev) == <<t, prev>>

RecordsInit == Init /\ AuditInit

RecordsNext ==
  \/ clock = 0 /\ Next /\ UNCHANGED auditVars
  \/ (\A p \in Writer : pc[p] = "start") /\ AuditNext /\ UNCHANGED vars

RecordsSpec == RecordsInit /\ [][RecordsNext]_<<vars, auditVars>>
=============================================================================
