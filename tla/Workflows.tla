------------------------------ MODULE Workflows ----------------------------
(***************************************************************************)
(* The services that work on rows of one organization, and AuthService,    *)
(* over one desk of request frames.  They share no table; a behaviour is   *)
(* about the operations in ops.                                            *)
(***************************************************************************)
EXTENDS Inventory, Finance, Agenda, Messages, Accounts, Repertoire

workVars == <<desk, stock, ledger, agenda, inbox, identities, repertoire>>

Init == InvtInit /\ FinInit /\ AgInit /\ MsgInit /\ AuthInit /\ RepInit

Concerns(O) == ops \cap O # {}

Next ==
  \/ Concerns(InvtOps) /\ InvtNext /\ UNCHANGED <<ledger, agenda, inbox, identities, repertoire>>
  \/ Concerns(LedgerOps \cup PerDiemOps) /\ FinNext /\ UNCHANGED <<stock, agenda, inbox, identities, repertoire>>
  \/ Concerns(AgendaOps) /\ AgNext /\ UNCHANGED <<stock, ledger, inbox, identities, repertoire>>
  \/ Concerns(MsgOps \cup NoteOps) /\ MsgNext /\ UNCHANGED <<stock, ledger, agenda, identities, repertoire>>
  \/ Concerns(AuthOps) /\ AuthNext /\ UNCHANGED <<stock, ledger, agenda, inbox, repertoire>>
  \/ Concerns(RepOps) /\ RepNext /\ UNCHANGED <<stock, ledger, agenda, inbox, identities>>

Spec == Init /\ [][Next]_workVars

-----------------------------------------------------------------------------
(* Rows have the shape of their table, and what one handler writes in       *)
(* several columns or rows stays together: a flag and its date, a vehicle   *)
(* and what belongs to it, an assignment found and its instrument.          *)
WorkflowsOK ==
  /\ InvtInv
  /\ FinTypeOK
  /\ AgTypeOK
  /\ AgendaConsistent
  /\ MsgTypeOK
  /\ AuthTypeOK
  /\ RepTypeOK
  /\ RepertoireConsistent
=============================================================================
