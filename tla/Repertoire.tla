----------------------------- MODULE Repertoire ----------------------------
(***************************************************************************)
(* SongsService, SkillsService and the venues of EventsService: a song     *)
(* that may be taken out of the repertoire, the global catalogue of skill  *)
(* categories, the skills users claim, and a venue.                        *)
(*                                                                         *)
(* Rows of user_skills are numbered in the order they are inserted, so a   *)
(* number names one row for ever, as a cuid does.                          *)
(***************************************************************************)
EXTENDS Desk, Naturals

CONSTANTS
  Musicians,    \* users
  CategoryIds,  \* identifiers of skill_categories
  Skills,       \* names of skill categories
  MaxSkills     \* user_skills rows inserted in a behaviour

ASSUME SkillsAssumption == MaxSkills \in Nat

SongOps     == {"createSong", "updateSong", "removeSong"}
CategoryOps == {"createSkillCategory", "deleteSkillCategory"}
SkillOps    == {"addSkill", "removeSkill"}
VenueOps    == {"createVenue", "updateVenue"}
RepOps      == SongOps \cup CategoryOps \cup SkillOps \cup VenueOps

VARIABLES
  song,         \* the songs row: isActive and whether deletedAt is set
  category,     \* category[c]: Null, the name of skill_categories row c, or "gone"
  skills,       \* skills[m][c]: the user_skills row of the unique key, or Null
  claimed,      \* the number of user_skills rows inserted so far
  venue         \* the venues row: Null or createdById

catalogue  == <<category, skills, claimed>>
repertoire == <<song, catalogue, venue>>
repVars    == <<desk, repertoire>>

SongRow == [isActive : BOOLEAN, deleted : BOOLEAN]

ASSUME SongAssumption == Null \notin SongRow

NoSkills == [c \in CategoryIds |-> Null]

RepInit ==
  /\ DeskInit
  /\ song = Null
  /\ category = [c \in CategoryIds |-> Null]
  /\ skills = [m \in Musicians |-> NoSkills]
  /\ claimed = 0
  /\ venue = Null

Held(m) == {c \in CategoryIds : skills[m][c] # Null}

-----------------------------------------------------------------------------
RepAsk(op, pc, x, m, v) ==
  [Idle EXCEPT !.op = op, !.pc = pc, !.on = x, !.who = m, !.arg = v]

SongCall(s) ==
  \/ Open(s, RepAsk("createSong", "role", Null, Null, Null))
  \/ \E a \in BOOLEAN \cup {Null} : Open(s, RepAsk("updateSong", "song", Null, Null, a))
  \/ Open(s, RepAsk("removeSong", "song", Null, Null, Null))

CategoryCall(s) ==
  \/ \E n \in Skills : Open(s, RepAsk("createSkillCategory", "exists", Null, Null, n))
  \/ \E c \in CategoryIds :
       category[c] # Null /\ Open(s, RepAsk("deleteSkillCategory", "category", c, Null, Null))

(* A client names a category, or a skill by the id of its row.  The id may  *)
(* be another user's.                                                       *)
SkillCall(s) ==
  \E m \in Musicians, c \in CategoryIds :
    \/ category[c] # Null /\ Open(s, RepAsk("addSkill", "category", c, m, Null))
    \/ \E owner \in Musicians :
         /\ skills[owner][c] # Null
         /\ Open(s, RepAsk("removeSkill", "skill", Null, m, skills[owner][c]))

VenueCall(s) ==
  \E m \in Musicians :
    \/ Open(s, RepAsk("createVenue", "write", Null, m, Null))
    \/ venue # Null /\ Open(s, RepAsk("updateVenue", "venue", Null, m, Null))

RepCall(s) ==
  /\ SongCall(s) \/ CategoryCall(s) \/ SkillCall(s) \/ VenueCall(s)
  /\ UNCHANGED repertoire

-----------------------------------------------------------------------------
(* The reads. *)
Reads(s, pc) == AtStep(s, pc) /\ frame[s].op \in RepOps /\ UNCHANGED repertoire

FindSong(s) ==
  /\ Reads(s, "song")
  /\ IF song # Null /\ ~song.deleted THEN Next2(s, "role") ELSE Throw(s)

AskSongRole(s) == Reads(s, "role") /\ Authority(s, "write")

SkillCategoryExists(s) ==
  /\ Reads(s, "exists")
  /\ IF \E c \in CategoryIds : category[c] = frame[s].arg THEN Throw(s) ELSE Next2(s, "write")

FindCategory(s) ==
  LET f == frame[s] IN
  /\ Reads(s, "category")
  /\ IF category[f.on] \notin Skills THEN Throw(s)
     ELSE Next2(s, IF f.op = "addSkill" THEN "entry" ELSE "write")

FindOwnSkill(s) ==
  LET f == frame[s] IN
  /\ Reads(s, "entry")
  /\ IF f.on \in Held(f.who) THEN Throw(s) ELSE Next2(s, "write")

(* What if a skill were found by its id alone? *)
FindAnySkill(s) ==
  LET f == frame[s] IN
  /\ Reads(s, "skill")
  /\ IF \E m \in Musicians : \E c \in Held(m) : skills[m][c] = f.arg
     THEN Next2(s, "write") ELSE Throw(s)

(* removeSkill looks for the id among the caller's skills. *)
FindSkill(s) ==
  LET f == frame[s] IN
  /\ Reads(s, "skill")
  /\ IF \E c \in Held(f.who) : skills[f.who][c] = f.arg THEN Next2(s, "write") ELSE Throw(s)

FindVenue(s) ==
  /\ Reads(s, "venue")
  /\ IF venue = frame[s].who THEN Next2(s, "write") ELSE Throw(s)

-----------------------------------------------------------------------------
(* The writes. *)
WritesRep(s, op) == AtStep(s, "write") /\ frame[s].op = op

(* Another song than the one followed may be created. *)
CreateSong(s) ==
  /\ WritesRep(s, "createSong")
  /\ song' = IF song = Null THEN [isActive |-> TRUE, deleted |-> FALSE] ELSE song
  /\ UNCHANGED <<catalogue, venue>>
  /\ Finish(s, Null)

(* update writes the DTO by id, without looking at deletedAt again. *)
UpdateSong(s) ==
  LET a == frame[s].arg IN
  /\ WritesRep(s, "updateSong")
  /\ song' = IF a = Null THEN song ELSE [song EXCEPT !.isActive = a]
  /\ UNCHANGED <<catalogue, venue>>
  /\ Finish(s, Null)

RemoveSong(s) ==
  /\ WritesRep(s, "removeSong")
  /\ song' = [isActive |-> FALSE, deleted |-> TRUE]
  /\ UNCHANGED <<catalogue, venue>>
  /\ Finish(s, Null)

(* The unique index on name refuses a second row. *)
CreateSkillCategory(s) ==
  LET n == frame[s].arg IN
  /\ WritesRep(s, "createSkillCategory")
  /\ UNCHANGED <<song, skills, claimed, venue>>
  /\ IF \E c \in CategoryIds : category[c] = n THEN UNCHANGED category /\ Throw(s)
     ELSE /\ \E c \in CategoryIds : category[c] = Null /\ category' = [category EXCEPT ![c] = n]
          /\ Finish(s, Null)

(* The foreign key of user_skills refuses to lose a category in use. *)
DeleteSkillCategory(s) ==
  LET c == frame[s].on IN
  /\ WritesRep(s, "deleteSkillCategory")
  /\ UNCHANGED <<song, skills, claimed, venue>>
  /\ IF \/ category[c] \notin Skills
        \/ \E m \in Musicians : c \in Held(m)
     THEN UNCHANGED category /\ Throw(s)
     ELSE category' = [category EXCEPT ![c] = "gone"] /\ Finish(s, Null)

(* The unique index, or the foreign key, refuses the row. *)
AddSkill(s) ==
  LET f == frame[s] IN
  /\ WritesRep(s, "addSkill")
  /\ UNCHANGED <<song, category, venue>>
  /\ IF f.on \in Held(f.who) \/ category[f.on] \notin Skills
     THEN UNCHANGED <<skills, claimed>> /\ Throw(s)
     ELSE /\ claimed < MaxSkills
          /\ claimed' = claimed + 1
          /\ skills' = [skills EXCEPT ![f.who][f.on] = claimed']
          /\ Finish(s, Null)

RemoveSkill(s) ==
  LET row == frame[s].arg IN
  /\ WritesRep(s, "removeSkill")
  /\ skills' = [m \in Musicians |->
                  [c \in CategoryIds |-> IF skills[m][c] = row THEN Null ELSE skills[m][c]]]
  /\ UNCHANGED <<song, category, claimed, venue>>
  /\ Finish(s, Null)

(* createVenue and updateVenue; createdById is not part of the DTO. *)
WriteVenue(s) ==
  LET f == frame[s] IN
  /\ \/ WritesRep(s, "createVenue") /\ venue' = IF venue = Null THEN f.who ELSE venue
     \/ WritesRep(s, "updateVenue") /\ UNCHANGED venue
  /\ UNCHANGED <<song, catalogue>>
  /\ Finish(s, Null)

RepHandler(s) ==
  \/ FindSong(s) \/ AskSongRole(s) \/ SkillCategoryExists(s) \/ FindCategory(s)
  \/ FindOwnSkill(s) \/ FindSkill(s) \/ FindVenue(s)
  \/ CreateSong(s) \/ UpdateSong(s) \/ RemoveSong(s)
  \/ CreateSkillCategory(s) \/ DeleteSkillCategory(s) \/ AddSkill(s) \/ RemoveSkill(s)
  \/ WriteVenue(s)

RepFail(s) == frame[s].op \in RepOps /\ Fail(s) /\ UNCHANGED repertoire

RepNext == \E s \in Slots : RepCall(s) \/ RepHandler(s) \/ RepFail(s)

RepSpec == RepInit /\ [][RepNext]_repVars

-----------------------------------------------------------------------------
RepTypeOK ==
  /\ song \in SongRow \cup {Null}
  /\ category \in [CategoryIds -> Skills \cup {Null, "gone"}]
  /\ skills \in [Musicians -> [CategoryIds -> (1..MaxSkills) \cup {Null}]]
  /\ claimed \in 0..MaxSkills
  /\ venue \in Musicians \cup {Null}

(* A claimed skill is one of the catalogue, however categories are deleted  *)
(* and created while it is being claimed.  When requests take turns, a song *)
(* that was removed is not made active again.                               *)
RepertoireConsistent ==
  /\ \A m \in Musicians, c \in CategoryIds : skills[m][c] # Null => category[c] \in Skills
  /\ calm /\ song # Null /\ song.deleted => ~song.isActive

(* A user's skill goes only when that user has asked for that very row to   *)
(* go: not with a category that is deleted, not by another user's request,  *)
(* and a row claimed again meanwhile is left alone.                         *)
SkillsStayUntilRemoved ==
  [][\A m \in Musicians : \A c \in Held(m) :
       skills'[m][c] # skills[m][c] =>
         \E s \in Slots : frame[s].op = "removeSkill" /\ frame[s].who = m
                            /\ frame[s].arg = skills[m][c]]_repVars
=============================================================================
