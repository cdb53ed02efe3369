------------------------------- MODULE Handlers -------------------------------
(***************************************************************************)
(* Two handlers behind the door that wait for something: the validation of *)
(* a milestone (vaults/milestoneValidationRoute.ts) over the repositories  *)
(* and the publisher it is given, and PATCH of notification preferences.   *)
(*                                                                         *)
(* index.ts gives the first one repositories in memory, which start anew   *)
(* with the process; any step may interleave with others, as it does over  *)
(* a repository that waits.  The preferences are rows of the database.     *)
(***************************************************************************)
EXTENDS FrontDoor

CONSTANTS
    Assigned,      \* users assigned as verifiers to the vault
    Fields,        \* of the preferences
    Default        \* their values for a user without a row

ASSUME PreferencesAssumption == Default \in [Fields -> BOOLEAN]
ASSUME CallsAssumption == Calls \subseteq CallType(Fields)

VARIABLES
    milestone,     \* of the vault: pending or validated
    events,        \* MilestoneValidationEventRepository: the request of each
    marked,        \* history: requests that marked the milestone validated
    crossed,       \* history: those that read it before another marked it
    published,     \* what subscribers have received
    unpublished,   \* history: the publisher rejected
    preferences,   \* table notification_preferences
    existing,      \* the row an update has read
    raced          \* history: updates whose row changed after they read it

milestoneVars == <<milestone, events, marked, crossed, published, unpublished>>
preferenceVars == <<preferences, existing, raced>>
heldVars == <<now, limitVars, storeVars, restarts>>
vars == <<doorVars, milestoneVars, preferenceVars>>

Init ==
    /\ DoorInit
    /\ milestone = "pending" /\ events = {} /\ marked = {} /\ crossed = {}
    /\ published = {} /\ unpublished = {}
    /\ preferences \in [Users -> [Fields -> BOOLEAN] \cup {None}]
    /\ existing = [r \in Requests |-> None]
    /\ raced = {}

-----------------------------------------------------------------------------
(* POST /vaults/:id/milestones/:mid/validate. *)

Validate(r, c) ==
    /\ c.route = "validate"
    /\ \E user \in UserOf(c) :
           /\ Enters(r, c, user)
           /\ IF user.role = "verifier" THEN Begin(r, c, user, "assignment") ELSE Answer(r, 403)
           /\ UNCHANGED <<storeVars, milestoneVars, preferenceVars>>

IsVerifierAssigned(r) ==
    /\ pc[r] = "assignment"
    /\ IF \E user \in attached[r] : user.id \in Assigned
       THEN GoTo(r, "milestone")
       ELSE Answer(r, 403)
    /\ UNCHANGED <<heldVars, milestoneVars, preferenceVars>>

(* A bug to detect: the status is not looked at. *)
GetAnyMilestone(r) ==
    /\ pc[r] = "milestone"
    /\ GoTo(r, "event")
    /\ UNCHANGED <<heldVars, milestoneVars, preferenceVars>>

(* getByVaultAndId; the milestone may also be none of the vault's.         *)
GetMilestone(r) ==
    /\ pc[r] = "milestone"
    /\ \/ Answer(r, 404)
       \/ IF milestone = "validated" THEN Answer(r, 409) ELSE GoTo(r, "event")
    /\ UNCHANGED <<heldVars, milestoneVars, preferenceVars>>

CreateEvent(r) ==
    /\ pc[r] = "event"
    /\ events' = events \cup {r}
    /\ GoTo(r, "mark")
    /\ UNCHANGED <<heldVars, milestone, marked, crossed,
                   published, unpublished, preferenceVars>>

(* markValidated, whatever the status is by now. *)
MarkValidated(r) ==
    /\ pc[r] = "mark"
    /\ milestone' = "validated"
    /\ marked' = marked \cup {r}
    /\ crossed' = crossed \cup {q \in Requests \ {r} : pc[q] \in {"event", "mark"}}
    /\ GoTo(r, "publish")
    /\ UNCHANGED <<heldVars, events, published, unpublished,
                   preferenceVars>>

(* A bug to detect: the answer does not wait for the publisher. *)
PublishLater(r) ==
    /\ pc[r] = "publish"
    /\ Answer(r, 200)
    /\ UNCHANGED <<heldVars, milestoneVars, preferenceVars>>

Publish(r) ==
    /\ pc[r] = "publish"
    /\ published' = published \cup {r}
    /\ Answer(r, 200)
    /\ UNCHANGED <<heldVars, milestone, events, marked,
                   crossed, unpublished, preferenceVars>>

(* A call of the handler rejects: next(error).  Nothing is undone, and the *)
(* event that was to be published is not kept.                             *)
HandlerFails(r) ==
    /\ pc[r] \in {"assignment", "milestone", "event", "mark", "publish", "read", "upsert"}
    /\ Answer(r, 500)
    /\ unpublished' = IF pc[r] = "publish" THEN unpublished \cup {r} ELSE unpublished
    /\ existing' = [existing EXCEPT ![r] = None]
    /\ UNCHANGED <<heldVars, milestone, events, marked,
                   crossed, published, preferences, raced>>

-----------------------------------------------------------------------------
(* PATCH /api/users/me/notification-preferences. *)

(* A body with other fields, or other than booleans, is refused.           *)
Patch(r, c) ==
    /\ c.route = "patch"
    /\ \E user \in UserOf(c) :
           /\ Enters(r, c, user)
           /\ Begin(r, c, user, "read") \/ Answer(r, 400)
           /\ UNCHANGED <<storeVars, milestoneVars, preferenceVars>>

(* The user of an update, whose session may end while it waits. *)
Updates(r, u) == \E user \in attached[r] : user.id = u

ReadExisting(r) ==
    /\ pc[r] = "read"
    /\ \E u \in Users : Updates(r, u) /\ existing' = [existing EXCEPT ![r] = preferences[u]]
    /\ GoTo(r, "upsert")
    /\ UNCHANGED <<heldVars, milestoneVars, preferences, raced>>

(* A bug to detect: what a body leaves out goes back to its default. *)
MergedWithDefault(body, row) ==
    [f \in Fields |-> IF f \in DOMAIN body THEN body[f] ELSE Default[f]]

(* Every field is written: COALESCE has nothing left to choose. *)
Merged(body, row) ==
    [f \in Fields |-> IF f \in DOMAIN body THEN body[f]
                      ELSE IF row # None THEN row[f] ELSE Default[f]]

(* INSERT ... ON CONFLICT DO UPDATE; its acknowledgement may be lost.      *)
Upsert(r) ==
    /\ pc[r] = "upsert"
    /\ \E u \in Users :
          /\ Updates(r, u)
          /\ preferences' = [preferences EXCEPT ![u] = Merged(call[r].body, existing[r])]
          /\ raced' = raced \cup {q \in Requests \ {r} : pc[q] = "upsert" /\ Updates(q, u)}
    /\ existing' = [existing EXCEPT ![r] = None]
    /\ \E code \in {200, 500} : Answer(r, code)
    /\ UNCHANGED <<heldVars, milestoneVars>>

-----------------------------------------------------------------------------
Restart ==
    /\ RestartDoor
    /\ milestone' = "pending" /\ events' = {} /\ marked' = {} /\ crossed' = {}
    /\ unpublished' = {}
    /\ existing' = [r \in Requests |-> None]
    /\ UNCHANGED <<published, preferences, raced>>

(* What happens without a request. *)
DoorAlone ==
    /\ Tick \/ sweep \/ \E t \in Requests : touch(t)
    /\ UNCHANGED <<milestoneVars, preferenceVars>>

DoorStep(r) ==
    /\ \E c \in Calls :
          TooMany(r, c) \/ Unauthorized(r, c) \/ Login(r, c) \/ Logout(r, c) \/ Me(r, c)
    /\ UNCHANGED <<milestoneVars, preferenceVars>>

ValidateStep(r) ==
    \/ \E c \in Calls : Validate(r, c)
    \/ IsVerifierAssigned(r) \/ GetMilestone(r) \/ CreateEvent(r)
    \/ MarkValidated(r) \/ Publish(r)

PatchStep(r) ==
    \/ \E c \in Calls : Patch(r, c)
    \/ ReadExisting(r) \/ Upsert(r)

RequestStep(r) == DoorStep(r) \/ ValidateStep(r) \/ PatchStep(r) \/ HandlerFails(r)

Next ==
    \/ DoorAlone \/ Restart
    \/ \E r \in Requests : RequestStep(r)

Spec == Init /\ [][Next]_vars

-----------------------------------------------------------------------------
(* Type of the state. *)
TypeOK ==
    /\ now \in 0..MaxTime /\ restarts \in 0..MaxRestarts
    /\ \A k \in DOMAIN windows : windows[k].count > 0 /\ windows[k].resetAt \in Nat
    /\ \A t \in DOMAIN sessions : sessions[t].expiresAt <= now + TtlMs
    /\ status \in [Requests -> {0, 200, 201, 204, 400, 401, 403, 404, 409, 429, 500}]
    /\ call \in [Requests -> Calls \cup {None}]
    /\ milestone \in {"pending", "validated"}
    /\ marked \subseteq events /\ published \subseteq Requests
    /\ preferences \in [Users -> [Fields -> BOOLEAN] \cup {None}]
    /\ existing \in [Requests -> [Fields -> BOOLEAN] \cup {None}]

(* A milestone is validated twice in the life of a process only by         *)
(* verifiers who both read it before either had marked it.                 *)
ValidatedTwiceIsRace ==
    \A r, q \in marked : r = q \/ {r, q} \cap crossed # {}

(* A milestone that is validated has been announced, unless a request is   *)
(* about to, or the publisher rejected the announcement of one: it is then *)
(* lost, as validating again is answered 409.                              *)
ValidatedIsAnnounced ==
    milestone = "validated" =>
        \E r \in marked : pc[r] = "publish" \/ r \in published \cup unpublished

(* docs/notification-preferences-validation.md, "only provided fields are  *)
(* updated": a field no body names changes only when another update of the *)
(* user was stored after this one had read the row.                        *)
StaleFieldIsRace ==
    [][\A u \in Users : \A f \in Fields :
          preferences[u] # None /\ preferences'[u][f] # preferences[u][f] =>
             \E r \in Requests : /\ pc[r] = "upsert" /\ pc'[r] = "done" /\ Updates(r, u)
                                 /\ f \in DOMAIN call[r].body \/ r \in raced]_vars
==============================================================================
