----------------------------- MODULE APIManager -----------------------------
(***************************************************************************)
(* The API manager of ManagedRoosts (internal/api/manager.go) with its     *)
(* cache of validation results and statuses, used by several goroutines on *)
(* one roost that is edited, deleted and created again; and the lifecycle  *)
(* tracker (lifecycle.go), which works on one object in memory.            *)
(*                                                                         *)
(* A validation result is cached under namespace, name and generation; a   *)
(* status as a pointer into the object of the caller that stored it, in a  *)
(* step after the API server took it.  Get and GetValidation delete what   *)
(* has expired while they hold only the read lock: two of them at once are *)
(* a data race on the map, which the Go runtime may end the process for.   *)
(*                                                                         *)
(* External: the API server (optimistic concurrency), events and metrics.  *)
(***************************************************************************)
EXTENDS ResourceValidator, FiniteSets

CONSTANTS
    ApiCallers,    \* goroutines, each with an object it read
    ApiSpecs,      \* specifications the roost may have
    ValidationTTL, StatusTTL,  \* lifetimes of cache entries, in ticks
    MaxEvents,     \* records the lifecycle tracker keeps, 50 in the code
    MaxGeneration, MaxApiChanges, MaxTracked    \* bounds

ASSUME ManagerAssumption ==
    /\ IsFiniteSet(ApiCallers) /\ {"none", "frozen"} \cap ApiCallers = {}
    /\ {ValidationTTL, StatusTTL, MaxApiChanges, MaxTracked} \subseteq Nat
    /\ {MaxEvents, MaxGeneration} \subseteq Nat \ {0}

VARIABLES
    stored,       \* the roost in the API server
    copy,         \* [ApiCallers -> object], the object of each goroutine
    validations,  \* [generations -> entry], validationCache
    statuses,     \* statusCache: whose object it points into, or a left object
    late,         \* history: the cache was set from an outdated object
    call,         \* [ApiCallers -> call], operation in progress and its answer
    apiProcess,      \* "up", or "fatal" after the race
    apiChanges,   \* edits, re-creations and status writes so far
    lifecycle     \* the tracker's LifecycleStatus, see the end of the module

managerVars == <<stored, copy, validations, statuses, late, call, apiProcess, apiChanges>>
apiVars == <<managerVars, lifecycle>>

Generations == 1 .. MaxGeneration
Object == [uid : Nat, gen : Generations, spec : ApiSpecs, rv : Nat, write : Nat, saved : {"yes", "no"}]
NoEntryYet == [age |-> ValidationTTL + 2, valid |-> "none", of |-> 0]
NoStatus == "none"
Frozen == "frozen"     \* the object the entry points into has left its goroutine
AtRest == [at |-> "rest", answer |-> "none"]

ManagerInit ==
    \E s \in ApiSpecs :
        LET new == [uid |-> 1, gen |-> 1, spec |-> s, rv |-> 0, write |-> 0, saved |-> "yes"] IN
        /\ stored = new
        /\ copy = [c \in ApiCallers |-> new]
        /\ validations = [g \in Generations |-> NoEntryYet]
        /\ statuses = [of |-> NoStatus, age |-> 0, uid |-> 0, write |-> 0, saved |-> "yes"]
        /\ late = "no"
        /\ call = [c \in ApiCallers |-> AtRest]
        /\ apiProcess = "up"
        /\ apiChanges = 0

Up == apiProcess = "up"
Resting(c) == Up /\ call[c].at = "rest"

(* The callers inside a read-locked section; a writer waits for them.        *)
ReadersOf(m) == {c \in ApiCallers : call[c].at = m}
NoReaders == ReadersOf("validations") = {} /\ ReadersOf("statuses") = {}

(* The status behind the cached pointer.                                    *)
Cached == IF statuses.of \in ApiCallers
          THEN [uid |-> copy[statuses.of].uid, write |-> copy[statuses.of].write,
                saved |-> copy[statuses.of].saved]
          ELSE [uid |-> statuses.uid, write |-> statuses.write, saved |-> statuses.saved]

-----------------------------------------------------------------------------
(* ValidateResource: GetValidation takes the read lock ...                  *)
GetValidation(c) ==
    /\ Resting(c)
    /\ call' = [call EXCEPT ![c] = [AtRest EXCEPT !.at = "validations"]]
    /\ UNCHANGED <<stored, copy, validations, statuses, late, apiProcess, apiChanges>>

(* ... and looks its key up, deleting an entry that has expired.  A delete    *)
(* that meets another reader of the map may be fatal.                       *)
GetValidationReturns(c) ==
    LET g == copy[c].gen
        e == validations[g]
    IN
    /\ Up /\ call[c].at = "validations"
    /\ \/ /\ e.age <= ValidationTTL
          /\ call' = [call EXCEPT ![c] = [AtRest EXCEPT !.answer = e.valid]]
          /\ UNCHANGED <<validations, apiProcess>>
       \/ /\ e.age > ValidationTTL
          /\ validations' = [validations EXCEPT ![g] = NoEntryYet]
          /\ call' = [call EXCEPT ![c].at = "validate"]
          /\ UNCHANGED apiProcess
       \/ /\ e.age = ValidationTTL + 1 /\ ReadersOf("validations") # {c}
          /\ apiProcess' = "fatal"
          /\ UNCHANGED <<validations, call>>
    /\ UNCHANGED <<stored, copy, statuses, late, apiChanges>>

(* The rest of ValidateResource: the rules run, the result is stored under   *)
(* the lock, which waits for the readers.                                   *)
SetValidation(c) ==
    LET valid == IF IsValid(copy[c].spec) THEN "valid" ELSE "invalid" IN
    /\ Up /\ call[c].at = "validate" /\ NoReaders
    /\ validations' = [validations EXCEPT ![copy[c].gen] =
           [age |-> 0, valid |-> valid, of |-> copy[c].uid]]
    /\ call' = [call EXCEPT ![c] = [AtRest EXCEPT !.answer = valid]]
    /\ UNCHANGED <<stored, copy, statuses, late, apiProcess, apiChanges>>

(* UpdateStatus.  applyStatusUpdate changes the caller's object, and with it  *)
(* what the cache points into; the API server then takes it or refuses it   *)
(* as outdated; if it took it, the cache is set in a step of its own.       *)
applyStatusUpdate(c) ==
    /\ Resting(c)
    /\ apiChanges < MaxApiChanges
    /\ copy' = [copy EXCEPT ![c].write = apiChanges + 1, ![c].saved = "no"]
    /\ call' = [call EXCEPT ![c] = [AtRest EXCEPT !.at = "update"]]
    /\ apiChanges' = apiChanges + 1
    /\ UNCHANGED <<stored, validations, statuses, late, apiProcess>>

UpdateStatus(c) ==
    /\ Up /\ call[c].at = "update"
    /\ \/ /\ copy[c].rv = stored.rv
          /\ copy' = [copy EXCEPT ![c].rv = stored.rv + 1, ![c].saved = "yes"]
          /\ stored' = [stored EXCEPT !.rv = @ + 1, !.write = copy[c].write]
          /\ call' = [call EXCEPT ![c].at = "set"]
       \/ /\ call' = [call EXCEPT ![c] = AtRest]
          /\ UNCHANGED <<stored, copy>>
    /\ UNCHANGED <<validations, statuses, late, apiProcess, apiChanges>>

SetStatus(c) ==
    /\ Up /\ call[c].at = "set" /\ NoReaders
    /\ statuses' = [of |-> c, age |-> 0, uid |-> 0, write |-> 0, saved |-> "yes"]
    /\ late' = IF copy[c].write < stored.write THEN "yes" ELSE "no"
    /\ call' = [call EXCEPT ![c] = AtRest]
    /\ UNCHANGED <<stored, copy, validations, apiProcess, apiChanges>>

(* GetCachedStatus hands out the pointer while the entry is young.          *)
GetCachedStatus(c) ==
    /\ Resting(c)
    /\ call' = [call EXCEPT ![c] = [AtRest EXCEPT !.at = "statuses"]]
    /\ UNCHANGED <<stored, copy, validations, statuses, late, apiProcess, apiChanges>>

GetReturns(c) ==
    LET hit == statuses.of # NoStatus /\ statuses.age <= StatusTTL
        expired == statuses.of # NoStatus /\ ~hit
    IN
    /\ Up /\ call[c].at = "statuses"
    /\ \/ /\ hit
          /\ call' = [call EXCEPT ![c] = [AtRest EXCEPT !.answer =
                 IF Cached.saved = "yes" THEN "stored" ELSE "unstored"]]
          /\ UNCHANGED <<statuses, apiProcess>>
       \/ /\ ~hit
          /\ statuses' = [statuses EXCEPT !.of = NoStatus, !.age = 0, !.uid = 0, !.write = 0]
          /\ call' = [call EXCEPT ![c] = AtRest]
          /\ UNCHANGED apiProcess
       \/ /\ expired /\ ReadersOf("statuses") # {c}
          /\ apiProcess' = "fatal"
          /\ UNCHANGED <<statuses, call>>
    /\ UNCHANGED <<stored, copy, validations, late, apiChanges>>

InvalidateCache(c) ==
    /\ Resting(c) /\ NoReaders
    /\ statuses' = [statuses EXCEPT !.of = NoStatus, !.age = 0, !.uid = 0, !.write = 0]
    /\ validations' = [validations EXCEPT ![copy[c].gen] = NoEntryYet]
    /\ call' = [call EXCEPT ![c] = AtRest]
    /\ UNCHANGED <<stored, copy, late, apiProcess, apiChanges>>

(* Environment: a goroutine reads the roost into a new object, and what the   *)
(* cache points into stays as it was left; users edit the roost, or delete   *)
(* and create it again under its name; time passes.                         *)
ReadRoost(c) ==
    /\ Resting(c) /\ copy[c] # stored
    /\ copy' = [copy EXCEPT ![c] = stored]
    /\ statuses' = IF statuses.of # c THEN statuses
                   ELSE [statuses EXCEPT !.of = Frozen, !.uid = copy[c].uid,
                                         !.write = copy[c].write, !.saved = copy[c].saved]
    /\ call' = [call EXCEPT ![c] = AtRest]
    /\ UNCHANGED <<stored, validations, late, apiProcess, apiChanges>>

ChangeRoost ==
    /\ Up /\ apiChanges < MaxApiChanges
    /\ apiChanges' = apiChanges + 1
    /\ \E s \in ApiSpecs :
          \/ /\ stored.gen < MaxGeneration /\ s # stored.spec
             /\ stored' = [stored EXCEPT !.gen = @ + 1, !.rv = @ + 1, !.spec = s]
          \/ stored' = [stored EXCEPT !.uid = @ + 1, !.gen = 1, !.rv = @ + 1, !.spec = s,
                                       !.write = 0]
    /\ UNCHANGED <<copy, validations, statuses, late, call, apiProcess>>

APITick ==
    /\ Up
    /\ validations' = [g \in Generations |-> [validations[g] EXCEPT
           !.age = IF @ <= ValidationTTL THEN @ + 1 ELSE @]]
    /\ statuses' = [statuses EXCEPT !.age = IF statuses.of # NoStatus /\ @ <= StatusTTL THEN @ + 1 ELSE @]
    /\ UNCHANGED <<stored, copy, late, call, apiProcess, apiChanges>>

ManagerNext ==
    /\ UNCHANGED lifecycle
    /\ \/ \E c \in ApiCallers :
             \/ GetValidation(c) \/ GetValidationReturns(c) \/ SetValidation(c)
             \/ applyStatusUpdate(c) \/ UpdateStatus(c) \/ SetStatus(c)
             \/ GetCachedStatus(c) \/ GetReturns(c) \/ InvalidateCache(c) \/ ReadRoost(c)
       \/ ChangeRoost \/ APITick

-----------------------------------------------------------------------------
(* The lifecycle tracker on one object.  A record is its type and its age;    *)
(* happened is the history of all events, which the code does not keep.     *)

EventTypes == {"Created", "Healthy"}

TrackerInit == lifecycle = [events |-> <<>>, counts |-> [t \in EventTypes |-> 0], happened |-> <<>>]

(* Mutant: the list is cut at its other end.                                 *)
updateKeepsOldest(l, type) ==
    LET events == Append(l.events, [type |-> type, age |-> 0]) IN
    [l EXCEPT !.events = IF Len(events) > MaxEvents THEN SubSeq(events, 1, MaxEvents) ELSE events,
              !.counts[type] = @ + 1]

updateLifecycleStatus(l, type) ==
    LET events == Append(l.events, [type |-> type, age |-> 0]) IN
    [l EXCEPT !.events = IF Len(events) > MaxEvents
                         THEN SubSeq(events, Len(events) - MaxEvents + 1, Len(events)) ELSE events,
              !.counts[type] = @ + 1]

TrackEvent(type) ==
    /\ Len(lifecycle.happened) < MaxTracked
    /\ lifecycle' = [updateLifecycleStatus(lifecycle, type) EXCEPT
                        !.happened = Append(@, [type |-> type, age |-> 0])]

TrackerTick ==
    LET Older(s) == [i \in DOMAIN s |-> [s[i] EXCEPT !.age = @ + 1]] IN
    /\ \A i \in DOMAIN lifecycle.happened : lifecycle.happened[i].age < MaxTracked
    /\ lifecycle' = [lifecycle EXCEPT !.events = Older(@), !.happened = Older(@)]

TrackerNext ==
    /\ UNCHANGED managerVars
    /\ (\E type \in EventTypes : TrackEvent(type)) \/ TrackerTick

GetRecentEvents(l, limit) ==
    SubSeq(l.events, IF Len(l.events) > limit THEN Len(l.events) - limit + 1 ELSE 1, Len(l.events))

(* IsEventRecent searches from the end and stops at the first record that     *)
(* lies before the cutoff; a record exactly at the cutoff counts as neither. *)
IsEventRecent(l, type, within) ==
    \E i \in DOMAIN l.events :
        /\ l.events[i].type = type /\ l.events[i].age < within
        /\ \A j \in i .. Len(l.events) : l.events[j].age <= within

-----------------------------------------------------------------------------
Record == [type : EventTypes, age : Nat]

APITypeOK ==
    /\ stored \in Object /\ copy \in [ApiCallers -> Object]
    /\ validations \in [Generations ->
           [age : 0 .. ValidationTTL + 2, valid : {"none", "valid", "invalid"}, of : Nat]]
    /\ statuses \in [of : ApiCallers \cup {NoStatus, Frozen}, age : 0 .. StatusTTL + 1, uid : Nat,
                     write : Nat, saved : {"yes", "no"}]
    /\ call \in [ApiCallers -> [at : {"rest", "validations", "validate", "update", "set", "statuses"},
                                answer : {"none", "valid", "invalid", "stored", "unstored"}]]
    /\ late \in {"yes", "no"} /\ apiProcess \in {"up", "fatal"} /\ apiChanges \in 0 .. MaxApiChanges
    /\ lifecycle \in [events : Seq(Record), counts : [EventTypes -> Nat], happened : Seq(Record)]
    /\ Len(lifecycle.events) <= MaxEvents

(* No copy is ahead of the stored roost, and no two objects of one            *)
(* incarnation and generation differ in their specification.                *)
Versions == {stored} \cup {copy[c] : c \in ApiCallers}
NoLaterThanStored(uid, gen) == uid < stored.uid \/ (uid = stored.uid /\ gen <= stored.gen)

CopiesAreOfThePast ==
    /\ \A o \in Versions : NoLaterThanStored(o.uid, o.gen)
    /\ \A o, p \in Versions : o.uid = p.uid /\ o.gen = p.gen => o.spec = p.spec

(* An object whose resource version is the stored one is the stored roost but  *)
(* for a status of its own, later than the stored status; no status was      *)
(* taken that the stored one has not replaced.                              *)
WritesAreOrdered ==
    /\ stored.saved = "yes" /\ stored.write <= apiChanges
    /\ \A c \in ApiCallers :
           LET o == copy[c] IN
           /\ o.rv <= stored.rv /\ o.write <= apiChanges
           /\ o.rv = stored.rv => o.uid = stored.uid /\ o.write >= stored.write
           /\ o.saved = "yes" /\ o.uid = stored.uid => o.write <= stored.write
           /\ call[c].at = "set" => o.saved = "yes"
    /\ Cached.uid <= stored.uid

(* A validation result is of an incarnation and a generation there has been.  *)
EntriesAreOfThePast ==
    \A g \in Generations :
        LET e == validations[g] IN
        e.age <= ValidationTTL =>
            /\ NoLaterThanStored(e.of, g)
            /\ \A o \in Versions : o.uid = e.of /\ o.gen = g => (e.valid = "valid" <=> IsValid(o.spec))

(* A cached validation is what the rules give for that specification: equal   *)
(* generations of one roost have equal specifications.  The key has no UID,  *)
(* so a roost created again within the lifetime of an entry may get its     *)
(* predecessor's; an entry that is wrong is of another incarnation.         *)
ValidationIsCurrent ==
    \A c \in ApiCallers :
        LET e == validations[copy[c].gen] IN
        e.age <= ValidationTTL =>
            \/ (e.valid = "valid") = IsValid(copy[c].spec)
            \/ e.of # copy[c].uid

(* The status cache shows the latest status the API server took, except in    *)
(* the window between a write and its Set, after two Sets in the opposite    *)
(* order of their writes, when the cached object was changed by an update   *)
(* that was refused (the pointer shows it), and when it is of an earlier     *)
(* incarnation of the roost.                                                *)
CacheShowsLatest ==
    \/ statuses.of = NoStatus \/ late = "yes" \/ ReadersOf("set") # {} \/ Cached.saved = "no"
    \/ Cached.uid # stored.uid
    \/ Cached.write = stored.write

(* The race ends the process only when two goroutines read one of the maps   *)
(* and one of them finds an expired entry.                                  *)
FatalOnlyOnExpiry ==
    apiProcess = "fatal" =>
        \/ /\ Cardinality(ReadersOf("validations")) > 1
           /\ \E g \in Generations : validations[g].age = ValidationTTL + 1
        \/ Cardinality(ReadersOf("statuses")) > 1 /\ statuses.age = StatusTTL + 1

(* The tracker's list is the end of what happened, the latest last.          *)
TrackerKeepsLatest ==
    LET h == lifecycle.happened
        events == lifecycle.events
    IN
    /\ Len(events) <= Len(h)
    /\ \A i \in DOMAIN events : events[i] = h[Len(h) - Len(events) + i]
    /\ \A i, j \in DOMAIN h : i <= j => h[j].age <= h[i].age

(* The tracker forgets the oldest records only: what it says of a recent       *)
(* event is what happened, unless more events than it keeps came after it;   *)
(* the counts are of everything that happened.                              *)
TrackerIsRight ==
    LET h == lifecycle.happened
        kept == Len(h) - Len(lifecycle.events)
    IN
    /\ \A t \in EventTypes :
           /\ lifecycle.counts[t] = Cardinality({i \in DOMAIN h : h[i].type = t})
           /\ \A w \in 1 .. MaxTracked :
                  IsEventRecent(lifecycle, t, w)
                      = \E i \in kept + 1 .. Len(h) : h[i].type = t /\ h[i].age < w
    /\ \A n \in 0 .. MaxTracked :
           GetRecentEvents(lifecycle, n) = SubSeq(h, Len(h) - (IF n < Len(lifecycle.events)
                                                   THEN n ELSE Len(lifecycle.events)) + 1, Len(h))

(* The API manager's caches and the lifecycle tracker under concurrent use.  *)
APIInv ==
    /\ APITypeOK /\ CopiesAreOfThePast /\ EntriesAreOfThePast /\ ValidationIsCurrent
    /\ WritesAreOrdered /\ CacheShowsLatest /\ FatalOnlyOnExpiry
    /\ TrackerKeepsLatest /\ TrackerIsRight
=============================================================================
