---------------------------- MODULE FlightCache ----------------------------
(***************************************************************************)
(* The Redis cache in front of flight_service's store: the fills of        *)
(* GetFlight and SearchFlights and the invalidations of ReserveSeats and   *)
(* ReleaseReservation (internal/grpcserver/server.go), with the two Lua    *)
(* scripts and the keys of internal/cache/cache.go.                        *)
(*                                                                         *)
(* A flight row is its version: every committed change raises it by one    *)
(* (see SeatInventory).  All flights are on one route and one day, so they *)
(* share the search lists of that day and of any day.  A handler that hits *)
(* the cache changes nothing and is not an action.                         *)
(***************************************************************************)
EXTENDS Integers, FiniteSets, FiniteSetsExt

CONSTANTS
  Flight,       \* the flights of the route
  Server,       \* gRPC handlers running at one time
  MaxWrites,    \* bound: committed changes of a flight
  CallsFail     \* whether calls to Redis and to the store may fail (a COMMIT may take
                \* effect and still report an error) and handlers may die

ASSUME CacheAssumption ==
  /\ Flight # {} /\ IsFiniteSet(Flight)
  /\ MaxWrites \in Nat
  /\ CallsFail \in BOOLEAN

VARIABLES
  version,      \* flights.version in the database
  flightValue,  \* key flight:<id>, the version of the flight stored there
  flightVer,    \* key flight:<id>:version
  searchValue,  \* keys search:<route>:<day>, the version of each listed flight
  searchVer,    \* keys search:<route>:<day>:version
  pc, job,      \* a handler: its next step, and the flight or search it is about
  got, list,    \* the version, or the list of versions, it has read
  leftStale     \* history: the cached flight was out of date when it was stored, a
                \* command that was to delete it has failed, or the handler that was
                \* to send that command has ended without it

flightKeys == <<flightValue, flightVer>>
searchKeys == <<searchValue, searchVer>>
server == <<pc, job, got, list>>
vars == <<version, flightKeys, searchKeys, server, leftStale>>

Key == {"day", "any"}
Absent == -1
NoList == [listed |-> FALSE]
List(vs) == [listed |-> TRUE, versions |-> vs]

Init ==
  /\ version = [f \in Flight |-> 0]
  /\ flightValue = [f \in Flight |-> Absent]
  /\ flightVer = [f \in Flight |-> Absent]
  /\ searchValue = [k \in Key |-> NoList]
  /\ searchVer = [k \in Key |-> Absent]
  /\ pc = [s \in Server |-> "idle"]
  /\ job = [s \in Server |-> "none"]
  /\ got = [s \in Server |-> Absent]
  /\ list = [s \in Server |-> NoList]
  /\ leftStale = [f \in Flight |-> FALSE]

Begin(s, place, what) ==
  /\ pc[s] = "idle"
  /\ pc' = [pc EXCEPT ![s] = place]
  /\ job' = [job EXCEPT ![s] = what]
  /\ UNCHANGED <<got, list>>
Step(s, from, to) ==
  /\ pc[s] = from
  /\ pc' = [pc EXCEPT ![s] = to]
  /\ UNCHANGED <<job, got, list>>
ReadRow(s, from, to) ==
  /\ pc[s] = from
  /\ pc' = [pc EXCEPT ![s] = to]
  /\ got' = [got EXCEPT ![s] = version[job[s]]]
  /\ UNCHANGED <<job, list>>
End(s, from) ==
  /\ pc[s] = from
  /\ pc' = [pc EXCEPT ![s] = "idle"]
  /\ job' = [job EXCEPT ![s] = "none"]
  /\ got' = [got EXCEPT ![s] = Absent]
  /\ list' = [list EXCEPT ![s] = NoList]

\* Mutant of Newer: SET without the comparison.
NewerOrNot(v, current) == TRUE
\* The two Lua scripts: a version at least the current one, or the first.
Newer(v, current) == current = Absent \/ v >= current

-----------------------------------------------------------------------------
(* GetFlight *)

MissFlight(s, f) ==
  /\ flightValue[f] = Absent \/ CallsFail
  /\ Begin(s, "readFlight", f)
  /\ UNCHANGED <<version, flightKeys, searchKeys, leftStale>>

ReadFlight(s) ==
  /\ ReadRow(s, "readFlight", "fillFlight")
  /\ UNCHANGED <<version, flightKeys, searchKeys, leftStale>>

\* SetFlightIfNewer; its error is ignored.
FillFlight(s) ==
  LET f == job[s] IN
  /\ pc[s] = "fillFlight"
  /\ \/ /\ Newer(got[s], flightVer[f])
        /\ flightValue' = [flightValue EXCEPT ![f] = got[s]]
        /\ flightVer' = [flightVer EXCEPT ![f] = got[s]]
        /\ leftStale' = [leftStale EXCEPT ![f] = got[s] < version[f]]
     \/ /\ CallsFail \/ ~Newer(got[s], flightVer[f])
        /\ UNCHANGED <<flightKeys, leftStale>>
  /\ End(s, "fillFlight")
  /\ UNCHANGED <<version, searchKeys>>

-----------------------------------------------------------------------------
(* SearchFlights *)

MissSearch(s, k) ==
  /\ searchValue[k] = NoList \/ CallsFail
  /\ Begin(s, "readSearch", k)
  /\ UNCHANGED <<version, flightKeys, searchKeys, leftStale>>

ReadSearch(s) ==
  /\ pc[s] = "readSearch"
  /\ pc' = [pc EXCEPT ![s] = "fillSearch"]
  /\ list' = [list EXCEPT ![s] = List(version)]
  /\ UNCHANGED <<job, got>>
  /\ UNCHANGED <<version, flightKeys, searchKeys, leftStale>>

\* maxVersion of SearchFlights: one number stands for the whole list.
ListVersion(l) == Max({l.versions[f] : f \in Flight})

\* SetSearchIfNewer; its error is ignored.
FillSearch(s) ==
  LET k == job[s]
      v == ListVersion(list[s])
  IN
  /\ pc[s] = "fillSearch"
  /\ \/ /\ Newer(v, searchVer[k])
        /\ searchValue' = [searchValue EXCEPT ![k] = list[s]]
        /\ searchVer' = [searchVer EXCEPT ![k] = v]
     \/ /\ CallsFail \/ ~Newer(v, searchVer[k])
        /\ UNCHANGED searchKeys
  /\ End(s, "fillSearch")
  /\ UNCHANGED <<version, flightKeys, leftStale>>

-----------------------------------------------------------------------------
(* ReserveSeats and ReleaseReservation, after the store's transaction *)

\* An error of the store ends the handler before any invalidation, also when the
\* COMMIT that reported it took effect.
Commit(s, f) ==
  /\ pc[s] = "idle"
  /\ version[f] < MaxWrites
  /\ version' = [version EXCEPT ![f] = @ + 1]
  /\ \/ Begin(s, "invalidate", f) /\ UNCHANGED leftStale
     \/ /\ CallsFail
        /\ leftStale' = [leftStale EXCEPT ![f] = TRUE]
        /\ UNCHANGED server
  /\ UNCHANGED <<flightKeys, searchKeys>>

\* Mutant of InvalidateFlight: the value stays.
KeepFlight(s) ==
  /\ Step(s, "invalidate", "reread")
  /\ UNCHANGED <<version, flightKeys, searchKeys, leftStale>>

InvalidateFlight(s) ==
  /\ Step(s, "invalidate", "reread")
  /\ \/ /\ flightValue' = [flightValue EXCEPT ![job[s]] = Absent]
        /\ UNCHANGED leftStale
     \/ /\ CallsFail
        /\ leftStale' = [leftStale EXCEPT ![job[s]] = TRUE]
        /\ UNCHANGED flightValue
  /\ UNCHANGED <<version, flightVer, searchKeys>>

\* The row is read again; on an error the rest is left out.
Reread(s) ==
  /\ \/ ReadRow(s, "reread", "invalidateDay")
     \/ CallsFail /\ End(s, "reread")
  /\ UNCHANGED <<version, flightKeys, searchKeys, leftStale>>

InvalidateKey(s, k, from, to) ==
  /\ Step(s, from, to)
  /\ \/ searchValue' = [searchValue EXCEPT ![k] = NoList]
     \/ CallsFail /\ UNCHANGED searchValue
  /\ UNCHANGED <<version, flightKeys, searchVer, leftStale>>

\* InvalidateSearch deletes two keys, one command each.
InvalidateSearch(s) ==
  \/ InvalidateKey(s, "day", "invalidateDay", "invalidateAny")
  \/ InvalidateKey(s, "any", "invalidateAny", "raiseFlight")

\* Mutant of RaiseFlightVersion: a plain SET.
SetFlightVersion(s) ==
  LET f == job[s] IN
  /\ Step(s, "raiseFlight", "raiseDay")
  /\ flightVer' = [flightVer EXCEPT ![f] = got[s]]
  /\ UNCHANGED <<version, flightValue, searchKeys, leftStale>>

RaiseFlightVersion(s) ==
  LET f == job[s] IN
  /\ Step(s, "raiseFlight", "raiseDay")
  /\ \/ Newer(got[s], flightVer[f]) /\ flightVer' = [flightVer EXCEPT ![f] = got[s]]
     \/ (CallsFail \/ ~Newer(got[s], flightVer[f])) /\ UNCHANGED flightVer
  /\ UNCHANGED <<version, flightValue, searchKeys, leftStale>>

RaiseKey(s, k) ==
  /\ \/ Newer(got[s], searchVer[k]) /\ searchVer' = [searchVer EXCEPT ![k] = got[s]]
     \/ (CallsFail \/ ~Newer(got[s], searchVer[k])) /\ UNCHANGED searchVer
  /\ UNCHANGED <<version, flightKeys, searchValue, leftStale>>

RaiseSearchVersions(s) ==
  \/ Step(s, "raiseDay", "raiseAny") /\ RaiseKey(s, "day")
  \/ pc[s] = "raiseAny" /\ RaiseKey(s, "any") /\ End(s, "raiseAny")

-----------------------------------------------------------------------------
(* The process of a handler ends, at any step; what is left is not done. *)

Die(s) ==
  /\ CallsFail /\ pc[s] # "idle"
  /\ End(s, pc[s])
  /\ leftStale' = [f \in Flight |-> leftStale[f] \/ (pc[s] = "invalidate" /\ job[s] = f)]
  /\ UNCHANGED <<version, flightKeys, searchKeys>>

-----------------------------------------------------------------------------
(* Redis drops keys whose time to live is over.  A script that stores a    *)
(* value renews its version key too, so the value is never the survivor.   *)

\* Mutant of ExpireFlightValue: a value stored without PX.
KeepForEver(f) == FALSE /\ UNCHANGED vars

ExpireFlightValue(f) ==
  /\ flightValue[f] # Absent
  /\ flightValue' = [flightValue EXCEPT ![f] = Absent]
  /\ UNCHANGED <<version, flightVer, searchKeys, server, leftStale>>
ExpireFlightVersion(f) ==
  /\ flightValue[f] = Absent /\ flightVer[f] # Absent
  /\ flightVer' = [flightVer EXCEPT ![f] = Absent]
  /\ UNCHANGED <<version, flightValue, searchKeys, server, leftStale>>
ExpireSearchValue(k) ==
  /\ searchValue[k] # NoList
  /\ searchValue' = [searchValue EXCEPT ![k] = NoList]
  /\ UNCHANGED <<version, flightKeys, searchVer, server, leftStale>>
ExpireSearchVersion(k) ==
  /\ searchValue[k] = NoList /\ searchVer[k] # Absent
  /\ searchVer' = [searchVer EXCEPT ![k] = Absent]
  /\ UNCHANGED <<version, flightKeys, searchValue, server, leftStale>>

-----------------------------------------------------------------------------
Start(s) ==
  \/ \E f \in Flight : MissFlight(s, f) \/ Commit(s, f)
  \/ \E k \in Key : MissSearch(s, k)

Continue(s) ==
  \/ ReadFlight(s) \/ FillFlight(s)
  \/ ReadSearch(s) \/ FillSearch(s)
  \/ InvalidateFlight(s) \/ Reread(s) \/ InvalidateSearch(s)
  \/ RaiseFlightVersion(s) \/ RaiseSearchVersions(s)

Next ==
  \/ \E s \in Server : Start(s) \/ Continue(s) \/ Die(s)
  \/ \E f \in Flight : ExpireFlightValue(f) \/ ExpireFlightVersion(f)
  \/ \E k \in Key : ExpireSearchValue(k) \/ ExpireSearchVersion(k)

Spec == Init /\ [][Next]_vars

\* Handlers that do not die finish, and a time to live ends.
FairSpec ==
  /\ Spec
  /\ \A s \in Server : WF_vars(Continue(s))
  /\ \A f \in Flight : WF_vars(ExpireFlightValue(f))
  /\ \A k \in Key : WF_vars(ExpireSearchValue(k))
-----------------------------------------------------------------------------
(* Properties *)

Version == 0 .. MaxWrites
MaybeVersion == Version \union {Absent}
Lists == [listed : {TRUE}, versions : [Flight -> Version]]

\* Every variable has its type.
TypeOK ==
  /\ version \in [Flight -> Version]
  /\ flightValue \in [Flight -> MaybeVersion]
  /\ flightVer \in [Flight -> MaybeVersion]
  /\ searchValue \in [Key -> Lists \union {NoList}]
  /\ searchVer \in [Key -> MaybeVersion]
  /\ pc \in [Server -> {"idle", "readFlight", "fillFlight", "readSearch", "fillSearch",
                        "invalidate", "reread", "invalidateDay", "invalidateAny",
                        "raiseFlight", "raiseDay", "raiseAny"}]
  /\ job \in [Server -> Flight \union Key \union {"none"}]
  /\ got \in [Server -> MaybeVersion]
  /\ list \in [Server -> Lists \union {NoList}]
  /\ leftStale \in [Flight -> BOOLEAN]

\* A cached flight is guarded by a version key that is at least as new as it is
\* and no newer than the database, whatever Redis commands fail or keys expire:
\* so the scripts can tell an older fill from a newer one.
KeyGuardsValue ==
  TypeOK /\ \A f \in Flight :
    /\ flightValue[f] # Absent => flightVer[f] >= flightValue[f]
    /\ flightVer[f] <= version[f]

\* cache_test.go, TestSetFlightIfNewer: a fill that was overtaken by a newer one
\* does not put the older flight back, from whichever handlers they come.
FlightNeverRegresses ==
  [][\A f \in Flight :
       flightValue[f] # Absent /\ flightValue'[f] # Absent =>
         flightValue'[f] >= flightValue[f]]_vars

\* Of the flights ReserveSeats and ReleaseReservation have changed, an outdated
\* copy is left only by a fill that had read the row before the change and
\* stored it after it, by a DEL that failed, or by a handler that has ended before
\* its DEL (it died, or the COMMIT reported an error); every other copy is gone
\* when the handlers have made their first call to Redis.
StaleOnlyByRaceOrFailure ==
  \A f \in Flight :
    flightValue[f] # Absent /\ flightValue[f] < version[f] =>
      leftStale[f] \/ \E s \in Server : pc[s] = "invalidate" /\ job[s] = f

\* An outdated flight or list does not stay: once the flights stop changing, the
\* cache holds nothing but their current versions, even if commands fail.
CacheBecomesCurrent ==
  <>[](/\ \A f \in Flight : flightValue[f] \in {Absent, version[f]}
       /\ \A k \in Key : searchValue[k] \in {NoList, List(version)})

\* Of the cached lists it is the largest version in them that never goes back, for
\* every number of flights: the one number SearchFlights gives to a whole list.
ListVersionNeverRegresses ==
  [][\A k \in Key :
       searchValue[k].listed /\ searchValue'[k].listed =>
         ListVersion(searchValue'[k]) >= ListVersion(searchValue[k])]_vars

\* Neither kind of fill puts back what a newer one has replaced, by the number its
\* script compares (the two scripts and their version keys).
NeverRegresses == FlightNeverRegresses /\ ListVersionNeverRegresses

\* cache_test.go, TestSetSearchIfNewer: "expected newest search result"; a cached
\* list is not replaced by one that is older for some flight.  It does not follow
\* from the order of the list versions on a route with more than one flight.
SearchNeverRegresses ==
  [][\A k \in Key :
       searchValue[k].listed /\ searchValue'[k].listed =>
         \A f \in Flight : searchValue'[k].versions[f] >= searchValue[k].versions[f]]_vars
=============================================================================
