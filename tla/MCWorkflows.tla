----------------------------- MODULE MCWorkflows ---------------------------
EXTENDS Workflows, TLC

Symmetry == Permutations(Slots) \cup Permutations(Entries) \cup Permutations(Writers)

(* Operations about the same rows meet. *)
WorkGroups ==
  {InvtOps, LedgerOps \ {"createCategory", "deleteCategory"},
   {"createCategory", "deleteCategory", "createEntry", "approveEntry"}, PerDiemOps,
   MsgOps \ {"markRead"}, {"send", "markRead"},
   NoteOps \cup {"send"}, AuthOps,
   EventOps, {"createEvent", "removeEvent"} \cup RosterOps, ItemOps \cup {"removeEvent"},
   VehicleOps \cup SeatOps \cup {"removeEvent"}, VehicleOps \cup PickupOps,
   {"upsertFinance", "removeEvent"}, SongOps, CategoryOps \cup SkillOps, VenueOps}

(* What a behaviour's operations do not concern begins empty. *)
WorkflowsInit ==
  /\ Init
  /\ Concerns(InvtOps) \/ \A i \in Instruments : ~Exists(i)
  /\ Concerns(AgendaOps) \/ (event.status = "none" /\ members = {})
  /\ Concerns(RosterOps) \/ rows = 0

WorkflowsSpec == WorkflowsInit /\ [][Next]_workVars
=============================================================================
