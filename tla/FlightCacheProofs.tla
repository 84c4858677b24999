------------------------- MODULE FlightCacheProofs -------------------------
(* What the version keys protect, for every set of flights and handlers,   *)
(* every number of changes, and with or without failing calls.             *)
EXTENDS FlightCache, WellFoundedInduction, TLAPS

Places == {"idle", "readFlight", "fillFlight", "readSearch", "fillSearch",
           "invalidate", "reread", "invalidateDay", "invalidateAny",
           "raiseFlight", "raiseDay", "raiseAny"}

\* What a handler knows at each step of its job.
JobIsKnown(s) ==
  /\ pc[s] \in {"readFlight", "invalidate", "reread"} => job[s] \in Flight
  /\ pc[s] \in {"readSearch", "fillSearch"} => job[s] \in Key
  /\ pc[s] = "fillSearch" => list[s] \in Lists
  /\ pc[s] \in {"fillFlight", "invalidateDay", "invalidateAny", "raiseFlight", "raiseDay", "raiseAny"} =>
       job[s] \in Flight /\ got[s] \in Version /\ got[s] <= version[job[s]]

JobsAreKnown == \A s \in Server : JobIsKnown(s)

\* A cached list is guarded by a version key, too.
KeyGuardsList == \A k \in Key : searchValue[k].listed => searchVer[k] >= ListVersion(searchValue[k])

IInv == KeyGuardsValue /\ KeyGuardsList /\ JobsAreKnown

-----------------------------------------------------------------------------
\* A bounded set of versions has a largest one, and Max is it.
LEMMA MaxOfVersions ==
  ASSUME NEW S \in SUBSET Version, S # {}
  PROVE  Max(S) \in S /\ \A v \in S : Max(S) >= v
<1> DEFINE T == {n \in Nat : MaxWrites - n \in S}
<1>1. MaxWrites \in Nat
  BY CacheAssumption
<1>2. PICK v \in S : TRUE
  OBVIOUS
<1>3. v \in 0 .. MaxWrites
  BY <1>2 DEF Version
<1>4. MaxWrites - v \in T
  BY <1>1, <1>2, <1>3
<1> DEFINE R == {ss \in Nat \X Nat : ss[1] < ss[2]}
<1>9. IsWellFoundedOn(R, Nat)
  BY NatLessThanWellFounded DEF OpToRel
<1> HIDE DEF R
<1>5. PICK n \in T : \A m \in T : ~ (<<m, n>> \in R)
  BY <1>4, <1>9, WFMin
<1>6. ASSUME NEW m \in T PROVE n <= m
  <2>1. m \in Nat /\ n \in Nat
    OBVIOUS
  <2>2. m < n => <<m, n>> \in R
    BY <2>1 DEF R
  <2> QED BY <1>5, <2>1, <2>2
<1>7. MaxWrites - n \in S
  OBVIOUS
<1>8. ASSUME NEW w \in S PROVE MaxWrites - n >= w
  <2>1. w \in 0 .. MaxWrites
    BY DEF Version
  <2>2. MaxWrites - w \in T
    BY <1>1, <2>1
  <2> QED BY <1>1, <1>6, <2>1, <2>2
<1> QED BY <1>7, <1>8 DEF Max

LEMMA ListVersionIsVersion ==
  ASSUME NEW l \in Lists
  PROVE  ListVersion(l) \in Version
<1>1. PICK f : f \in Flight
  BY CacheAssumption
<1>2. l.versions \in [Flight -> Version]
  BY DEF Lists
<1> DEFINE S == {l.versions[g] : g \in Flight}
<1>3. S \in SUBSET Version /\ S # {}
  BY <1>1, <1>2
<1>4. Max(S) \in S
  BY <1>3, MaxOfVersions
<1> QED BY <1>3, <1>4 DEF ListVersion
-----------------------------------------------------------------------------
(* The handlers *)

ServerTypes ==
  /\ pc \in [Server -> Places]
  /\ job \in [Server -> Flight \union Key \union {"none"}]
  /\ got \in [Server -> MaybeVersion]
  /\ list \in [Server -> Lists \union {NoList}]

DataTypes ==
  /\ version \in [Flight -> Version]
  /\ flightValue \in [Flight -> MaybeVersion]
  /\ flightVer \in [Flight -> MaybeVersion]
  /\ searchValue \in [Key -> Lists \union {NoList}]
  /\ searchVer \in [Key -> MaybeVersion]
  /\ leftStale \in [Flight -> BOOLEAN]

Data == <<version, flightKeys, searchKeys, leftStale>>

LEMMA TypesAre == TypeOK <=> ServerTypes /\ DataTypes
BY DEF TypeOK, ServerTypes, DataTypes, Places

OthersStay(s) ==
  \A d \in Server \ {s} :
    pc'[d] = pc[d] /\ job'[d] = job[d] /\ got'[d] = got[d] /\ list'[d] = list[d]

LEMMA BeginMoves ==
  ASSUME ServerTypes, NEW s \in Server, NEW place \in Places,
         NEW what \in Flight \union Key, Begin(s, place, what)
  PROVE  ServerTypes' /\ OthersStay(s) /\ pc'[s] = place /\ job'[s] = what
BY DEF ServerTypes, OthersStay, Begin

LEMMA StepMoves ==
  ASSUME ServerTypes, NEW s \in Server, NEW from, NEW to \in Places, Step(s, from, to)
  PROVE  /\ ServerTypes' /\ OthersStay(s) /\ pc[s] = from /\ pc'[s] = to
         /\ job'[s] = job[s] /\ got'[s] = got[s] /\ list'[s] = list[s]
BY DEF ServerTypes, OthersStay, Step

LEMMA ReadRowMoves ==
  ASSUME ServerTypes, DataTypes, NEW s \in Server, NEW from, NEW to \in Places,
         job[s] \in Flight, ReadRow(s, from, to)
  PROVE  /\ ServerTypes' /\ OthersStay(s) /\ pc[s] = from /\ pc'[s] = to
         /\ job'[s] = job[s] /\ got'[s] = version[job[s]]
<1>1. version[job[s]] \in MaybeVersion
  BY DEF DataTypes, MaybeVersion
<1> QED BY <1>1 DEF ServerTypes, OthersStay, ReadRow

LEMMA EndMoves ==
  ASSUME ServerTypes, NEW s \in Server, NEW from, End(s, from)
  PROVE  ServerTypes' /\ OthersStay(s) /\ pc[s] = from /\ pc'[s] = "idle"
<1>1. Absent \in MaybeVersion /\ "idle" \in Places
  BY DEF MaybeVersion, Places
<1> QED BY <1>1 DEF ServerTypes, OthersStay, End

\* Versions grow, so what the other handlers have read stays no newer than the row.
LEMMA OthersAreKnown ==
  ASSUME IInv, DataTypes', NEW s \in Server, OthersStay(s), JobIsKnown(s)',
         \A f \in Flight : version'[f] >= version[f]
  PROVE  JobsAreKnown'
<1>1. SUFFICES ASSUME NEW d \in Server PROVE JobIsKnown(d)'
  BY DEF JobsAreKnown
<1>2. CASE d = s
  BY <1>2
<1>3. CASE d # s
  <2>1. /\ pc'[d] = pc[d] /\ job'[d] = job[d] /\ got'[d] = got[d] /\ list'[d] = list[d]
        /\ JobIsKnown(d)
    BY <1>3 DEF OthersStay, IInv, JobsAreKnown
  <2>2. ASSUME job[d] \in Flight, got[d] \in Version, got[d] <= version[job[d]]
        PROVE  got[d] <= version'[job[d]]
    <3>1. /\ version[job[d]] \in Int /\ version'[job[d]] \in Int /\ got[d] \in Int
          /\ version'[job[d]] >= version[job[d]]
      BY <2>2, TypesAre DEF IInv, KeyGuardsValue, DataTypes, Version
    <3> QED BY <2>2, <3>1
  <2> QED BY <2>1, <2>2 DEF JobIsKnown
<1> QED BY <1>2, <1>3

\* A step of a handler that changes no data.
LEMMA QuietStep ==
  ASSUME IInv, ServerTypes', NEW s \in Server, OthersStay(s), JobIsKnown(s)', UNCHANGED Data
  PROVE  IInv'
<1>1. TypeOK /\ DataTypes
  BY TypesAre DEF IInv, KeyGuardsValue
<1>2. DataTypes'
  BY <1>1 DEF DataTypes, Data, flightKeys, searchKeys
<1>3. TypeOK'
  BY <1>2, TypesAre DEF TypeOK, ServerTypes, DataTypes, Places
<1>4. KeyGuardsValue' /\ KeyGuardsList'
  BY <1>3 DEF IInv, KeyGuardsValue, KeyGuardsList, Data, flightKeys, searchKeys
<1>5. JobsAreKnown'
  <2>1. \A f \in Flight : version'[f] >= version[f]
    BY <1>1 DEF DataTypes, Data, Version
  <2> QED BY <1>2, <2>1, OthersAreKnown
<1> QED BY <1>4, <1>5 DEF IInv

\* Steps that change data and keep the rows as they are.
LEMMA RowsStay ==
  ASSUME IInv, ServerTypes', DataTypes', NEW s \in Server, OthersStay(s), JobIsKnown(s)',
         UNCHANGED version,
         \A f \in Flight : /\ flightValue'[f] # Absent => flightVer'[f] >= flightValue'[f]
                           /\ flightVer'[f] <= version[f],
         KeyGuardsList'
  PROVE  IInv'
<1>1. TypeOK'
  BY DEF TypeOK, ServerTypes, DataTypes, Places
<1>2. \A f \in Flight : version'[f] >= version[f]
  BY DEF IInv, KeyGuardsValue, TypeOK, Version
<1>3. JobsAreKnown'
  BY <1>2, OthersAreKnown
<1> QED BY <1>1, <1>3 DEF IInv, KeyGuardsValue

-----------------------------------------------------------------------------
(* The keys of a flight *)

\* The commands that write the keys of one flight.
LEMMA FlightKeysChange ==
  ASSUME IInv, ServerTypes', NEW s \in Server, OthersStay(s), JobIsKnown(s)',
         NEW f \in Flight, NEW value \in MaybeVersion, NEW ver \in MaybeVersion,
         flightValue' = [flightValue EXCEPT ![f] = value],
         flightVer' = [flightVer EXCEPT ![f] = ver],
         value # Absent => ver >= value, ver <= version[f],
         leftStale' \in [Flight -> BOOLEAN], UNCHANGED <<version, searchKeys>>
  PROVE  IInv'
<1>1. DataTypes /\ TypeOK
  BY TypesAre DEF IInv, KeyGuardsValue
<1>2. DataTypes'
  BY <1>1 DEF DataTypes, searchKeys
<1>3. ASSUME NEW g \in Flight
      PROVE  /\ flightValue'[g] # Absent => flightVer'[g] >= flightValue'[g]
             /\ flightVer'[g] <= version[g]
  <2>1. CASE g = f
    BY <1>1, <2>1 DEF DataTypes
  <2>2. CASE g # f
    BY <1>1, <2>2 DEF DataTypes, IInv, KeyGuardsValue
  <2> QED BY <2>1, <2>2
<1>4. KeyGuardsList'
  BY DEF IInv, KeyGuardsList, searchKeys
<1> QED BY <1>2, <1>3, <1>4, RowsStay

\* The commands that write the keys of one search.
LEMMA SearchKeysChange ==
  ASSUME IInv, ServerTypes', NEW s \in Server, OthersStay(s), JobIsKnown(s)',
         NEW k \in Key, NEW value \in Lists \union {NoList}, NEW ver \in MaybeVersion,
         searchValue' = [searchValue EXCEPT ![k] = value],
         searchVer' = [searchVer EXCEPT ![k] = ver],
         value.listed => ver >= ListVersion(value),
         UNCHANGED <<version, flightKeys, leftStale>>
  PROVE  IInv'
<1>1. DataTypes /\ TypeOK
  BY TypesAre DEF IInv, KeyGuardsValue
<1>2. DataTypes'
  BY <1>1 DEF DataTypes, flightKeys
<1>3. ASSUME NEW f \in Flight
      PROVE  /\ flightValue'[f] # Absent => flightVer'[f] >= flightValue'[f]
             /\ flightVer'[f] <= version[f]
  BY DEF IInv, KeyGuardsValue, flightKeys
<1>4. KeyGuardsList'
  <2> SUFFICES ASSUME NEW j \in Key, searchValue'[j].listed
               PROVE  searchVer'[j] >= ListVersion(searchValue'[j])
    BY DEF KeyGuardsList, ListVersion
  <2>1. CASE j = k
    BY <1>1, <2>1 DEF DataTypes
  <2>2. CASE j # k
    BY <1>1, <2>2 DEF DataTypes, IInv, KeyGuardsList
  <2> QED BY <2>1, <2>2
<1> QED BY <1>2, <1>3, <1>4, RowsStay

\* A list that is cached has a version key, so the key cannot be Absent.
LEMMA ListIsGuarded ==
  ASSUME IInv, NEW k \in Key, searchValue[k].listed
  PROVE  /\ searchValue[k] \in Lists /\ ListVersion(searchValue[k]) \in Version
         /\ searchVer[k] >= ListVersion(searchValue[k]) /\ searchVer[k] # Absent
<1>1. searchValue[k] \in Lists
  BY DEF IInv, KeyGuardsValue, TypeOK, NoList
<1>2. ListVersion(searchValue[k]) \in Version
  BY <1>1, ListVersionIsVersion
<1>3. searchVer[k] >= ListVersion(searchValue[k])
  BY DEF IInv, KeyGuardsList
<1> QED BY <1>1, <1>2, <1>3 DEF Version, Absent

LEMMA RaiseKeyKeeps ==
  ASSUME IInv, ServerTypes', NEW s \in Server, OthersStay(s), JobIsKnown(s)',
         got[s] \in Version, NEW k \in Key, RaiseKey(s, k)
  PROVE  IInv'
<1>1. DataTypes /\ TypeOK
  BY TypesAre DEF IInv, KeyGuardsValue
<1>2. CASE UNCHANGED searchVer
  BY <1>2, QuietStep DEF RaiseKey, Data, flightKeys, searchKeys
<1>3. CASE Newer(got[s], searchVer[k]) /\ searchVer' = [searchVer EXCEPT ![k] = got[s]]
  <2> DEFINE value == searchValue[k]
  <2>1. /\ value \in Lists \union {NoList} /\ got[s] \in MaybeVersion
        /\ searchValue' = [searchValue EXCEPT ![k] = value]
    BY <1>1, <1>3 DEF DataTypes, MaybeVersion, RaiseKey
  <2>2. value.listed => got[s] >= ListVersion(value)
    <3>1. SUFFICES ASSUME value.listed PROVE got[s] >= ListVersion(value)
      OBVIOUS
    <3>2. /\ ListVersion(value) \in Int /\ searchVer[k] >= ListVersion(value)
          /\ searchVer[k] # Absent
      BY <3>1, ListIsGuarded DEF Version
    <3>3. got[s] >= searchVer[k] /\ got[s] \in Int /\ searchVer[k] \in Int
      BY <1>1, <1>3, <3>2 DEF Newer, DataTypes, Version, MaybeVersion, Absent
    <3> HIDE DEF value
    <3> QED BY <3>2, <3>3
  <2> HIDE DEF value
  <2>3. UNCHANGED <<version, flightKeys, leftStale>>
    BY DEF RaiseKey
  <2> QED BY <1>3, <2>1, <2>2, <2>3, SearchKeysChange
<1> QED BY <1>2, <1>3 DEF RaiseKey

-----------------------------------------------------------------------------
\* The version keys, and what every handler remembers of the rows, stay in order
\* through each command of GetFlight, SearchFlights and the invalidations.
THEOREM Inductive == Spec => []IInv
<1>1. Init => IInv
  <2> SUFFICES ASSUME Init PROVE IInv
    OBVIOUS
  <2>1. 0 \in Version /\ Absent \in MaybeVersion
    BY CacheAssumption DEF Version, MaybeVersion
  <2>2. TypeOK
    BY <2>1 DEF Init, TypeOK
  <2>3. KeyGuardsValue
    BY <2>2 DEF Init, KeyGuardsValue, Absent
  <2>4. JobsAreKnown
    BY DEF Init, JobsAreKnown, JobIsKnown
  <2>5. KeyGuardsList
    BY DEF Init, KeyGuardsList, NoList
  <2> QED BY <2>3, <2>4, <2>5 DEF IInv
<1>2. IInv /\ [Next]_vars => IInv'
  <2> SUFFICES ASSUME IInv, [Next]_vars PROVE IInv'
    OBVIOUS
  <2>1. TypeOK /\ KeyGuardsValue /\ JobsAreKnown
    BY DEF IInv, KeyGuardsValue
  <2>2. ServerTypes /\ DataTypes
    BY <2>1, TypesAre
  <2>3. ASSUME NEW s \in Server, NEW f \in Flight, MissFlight(s, f) PROVE IInv'
    <3>1. ServerTypes' /\ OthersStay(s) /\ pc'[s] = "readFlight" /\ job'[s] = f
      BY <2>2, <2>3, BeginMoves DEF MissFlight, Places
    <3>2. JobIsKnown(s)'
      BY <3>1 DEF JobIsKnown
    <3> QED BY <2>3, <3>1, <3>2, QuietStep DEF MissFlight, Data
  <2>4. ASSUME NEW s \in Server, ReadFlight(s) PROVE IInv'
    <3>1. job[s] \in Flight
      BY <2>1, <2>4 DEF ReadFlight, ReadRow, JobsAreKnown, JobIsKnown
    <3>2. /\ ServerTypes' /\ OthersStay(s) /\ pc'[s] = "fillFlight"
          /\ job'[s] = job[s] /\ got'[s] = version[job[s]]
      BY <2>2, <2>4, <3>1, ReadRowMoves DEF ReadFlight, Places
    <3>3. JobIsKnown(s)'
      BY <2>2, <2>4, <3>1, <3>2 DEF JobIsKnown, ReadFlight, DataTypes, Version
    <3> QED BY <2>4, <3>2, <3>3, QuietStep DEF ReadFlight, Data
  <2>5. ASSUME NEW s \in Server, FillFlight(s) PROVE IInv'
    <3>1. ServerTypes' /\ OthersStay(s) /\ pc[s] = "fillFlight" /\ pc'[s] = "idle"
      BY <2>2, <2>5, EndMoves DEF FillFlight
    <3>2. job[s] \in Flight /\ got[s] \in Version /\ got[s] <= version[job[s]]
      BY <2>1, <3>1 DEF JobsAreKnown, JobIsKnown
    <3>3. JobIsKnown(s)'
      BY <3>1 DEF JobIsKnown
    <3>4. CASE UNCHANGED <<flightKeys, leftStale>>
      BY <2>5, <3>1, <3>3, <3>4, QuietStep DEF FillFlight, Data
    <3>5. CASE /\ flightValue' = [flightValue EXCEPT ![job[s]] = got[s]]
               /\ flightVer' = [flightVer EXCEPT ![job[s]] = got[s]]
               /\ leftStale' = [leftStale EXCEPT ![job[s]] = got[s] < version[job[s]]]
      <4>1. got[s] \in MaybeVersion /\ got[s] >= got[s]
        BY <3>2 DEF MaybeVersion, Version
      <4>2. leftStale' \in [Flight -> BOOLEAN]
        BY <2>2, <3>2, <3>5 DEF DataTypes
      <4>3. UNCHANGED <<version, searchKeys>>
        BY <2>5 DEF FillFlight
      <4> QED BY <3>1, <3>2, <3>3, <3>5, <4>1, <4>2, <4>3, FlightKeysChange
    <3> QED BY <2>5, <3>4, <3>5 DEF FillFlight
  <2>6. ASSUME NEW s \in Server, NEW k \in Key, MissSearch(s, k) PROVE IInv'
    <3>1. ServerTypes' /\ OthersStay(s) /\ pc'[s] = "readSearch" /\ job'[s] = k
      BY <2>2, <2>6, BeginMoves DEF MissSearch, Places
    <3>2. JobIsKnown(s)'
      BY <3>1 DEF JobIsKnown
    <3> QED BY <2>6, <3>1, <3>2, QuietStep DEF MissSearch, Data
  <2>7. ASSUME NEW s \in Server, ReadSearch(s) PROVE IInv'
    <3>1. List(version) \in Lists
      BY <2>2 DEF List, Lists, DataTypes
    <3>2. ServerTypes' /\ OthersStay(s)
      BY <2>2, <2>7, <3>1 DEF ReadSearch, ServerTypes, OthersStay, Places
    <3>3. pc[s] = "readSearch" /\ pc'[s] = "fillSearch" /\ job'[s] = job[s] /\ list'[s] = List(version)
      BY <2>2, <2>7 DEF ReadSearch, ServerTypes
    <3>4. JobIsKnown(s)'
      <4>1. job[s] \in Key
        BY <2>1, <3>3 DEF JobsAreKnown, JobIsKnown
      <4>2. list'[s] \in Lists'
        BY <3>1, <3>3 DEF Lists, Version
      <4> QED BY <3>3, <4>1, <4>2 DEF JobIsKnown
    <3> QED BY <2>7, <3>2, <3>4, QuietStep DEF ReadSearch, Data
  <2>8. ASSUME NEW s \in Server, FillSearch(s) PROVE IInv'
    <3>1. ServerTypes' /\ OthersStay(s) /\ pc[s] = "fillSearch" /\ pc'[s] = "idle"
      BY <2>2, <2>8, EndMoves DEF FillSearch
    <3>2. job[s] \in Key /\ list[s] \in Lists
      BY <2>1, <3>1 DEF JobsAreKnown, JobIsKnown
    <3>3. JobIsKnown(s)'
      BY <3>1 DEF JobIsKnown
    <3> DEFINE v == ListVersion(list[s])
    <3>4. CASE UNCHANGED searchKeys
      BY <2>8, <3>1, <3>3, <3>4, QuietStep DEF FillSearch, Data
    <3>5. CASE /\ searchValue' = [searchValue EXCEPT ![job[s]] = list[s]]
               /\ searchVer' = [searchVer EXCEPT ![job[s]] = v]
      <4>1. v \in MaybeVersion /\ v >= v
        BY <3>2, ListVersionIsVersion DEF MaybeVersion, Version
      <4>2. UNCHANGED <<version, flightKeys, leftStale>>
        BY <2>8 DEF FillSearch
      <4> HIDE DEF v
      <4>3. list[s].listed => v >= ListVersion(list[s])
        BY <4>1 DEF v
      <4> QED BY <3>1, <3>2, <3>3, <3>5, <4>1, <4>2, <4>3, SearchKeysChange
    <3> QED BY <2>8, <3>4, <3>5 DEF FillSearch
  <2>9. ASSUME NEW s \in Server, NEW f \in Flight, Commit(s, f) PROVE IInv'
    <3>1. ServerTypes' /\ OthersStay(s) /\ pc'[s] \in {"idle", "invalidate"}
          /\ (pc'[s] = "invalidate" => job'[s] = f)
      <4>1. CASE Begin(s, "invalidate", f)
        BY <2>2, <4>1, BeginMoves DEF Places
      <4>2. CASE UNCHANGED server
        BY <2>2, <2>9, <4>2 DEF Commit, server, ServerTypes, OthersStay
      <4> QED BY <2>9, <4>1, <4>2 DEF Commit
    <3>2. JobIsKnown(s)'
      BY <3>1 DEF JobIsKnown
    <3>3. /\ version' \in [Flight -> Version]
          /\ \A g \in Flight : version'[g] >= version[g]
      BY <2>2, <2>9, CacheAssumption DEF Commit, DataTypes, Version
    <3>4. DataTypes'
      BY <2>2, <2>9, <3>3 DEF Commit, DataTypes, flightKeys, searchKeys
    <3>5. JobsAreKnown'
      BY <3>1, <3>2, <3>3, <3>4, OthersAreKnown
    <3>6. KeyGuardsValue'
      <4>1. TypeOK'
        BY <3>1, <3>4 DEF TypeOK, ServerTypes, DataTypes, Places
      <4>2. ASSUME NEW g \in Flight
            PROVE  /\ flightValue'[g] # Absent => flightVer'[g] >= flightValue'[g]
                   /\ flightVer'[g] <= version'[g]
        <5>1. /\ flightValue'[g] = flightValue[g] /\ flightVer'[g] = flightVer[g]
              /\ version[g] \in Int /\ version'[g] \in Int /\ flightVer[g] \in Int
          BY <2>2, <2>9, <3>3 DEF Commit, DataTypes, flightKeys, Version, MaybeVersion, Absent
        <5>2. /\ flightValue[g] # Absent => flightVer[g] >= flightValue[g]
              /\ flightVer[g] <= version[g]
          BY <2>1 DEF KeyGuardsValue
        <5> QED BY <3>3, <5>1, <5>2
      <4> QED BY <4>1, <4>2 DEF KeyGuardsValue
    <3>7. KeyGuardsList'
      BY <2>9 DEF Commit, IInv, KeyGuardsList, searchKeys
    <3> QED BY <3>5, <3>6, <3>7 DEF IInv
  <2>10. ASSUME NEW s \in Server, InvalidateFlight(s) PROVE IInv'
    <3>1. /\ ServerTypes' /\ OthersStay(s) /\ pc[s] = "invalidate" /\ pc'[s] = "reread"
          /\ job'[s] = job[s]
      BY <2>2, <2>10, StepMoves DEF InvalidateFlight, Places
    <3>2. job[s] \in Flight
      BY <2>1, <3>1 DEF JobsAreKnown, JobIsKnown
    <3>3. JobIsKnown(s)'
      BY <3>1, <3>2 DEF JobIsKnown
    <3>4. \E value \in MaybeVersion :
            /\ flightValue' = [flightValue EXCEPT ![job[s]] = value]
            /\ value = Absent \/ value = flightValue[job[s]]
      BY <2>2, <2>10, <3>2 DEF InvalidateFlight, DataTypes, MaybeVersion
    <3>5. PICK value \in MaybeVersion :
            /\ flightValue' = [flightValue EXCEPT ![job[s]] = value]
            /\ value = Absent \/ value = flightValue[job[s]]
      BY <3>4
    <3>6. /\ flightVer[job[s]] \in MaybeVersion
          /\ flightVer' = [flightVer EXCEPT ![job[s]] = flightVer[job[s]]]
          /\ leftStale' \in [Flight -> BOOLEAN]
          /\ UNCHANGED <<version, searchKeys>>
      BY <2>2, <2>10, <3>2 DEF InvalidateFlight, DataTypes
    <3>7. value # Absent => flightVer[job[s]] >= value
      BY <2>1, <3>2, <3>5 DEF KeyGuardsValue
    <3>8. flightVer[job[s]] <= version[job[s]]
      BY <2>1, <3>2 DEF KeyGuardsValue
    <3> QED BY <3>1, <3>2, <3>3, <3>5, <3>6, <3>7, <3>8, FlightKeysChange
  <2>11. ASSUME NEW s \in Server, Reread(s) PROVE IInv'
    <3>1. CASE ReadRow(s, "reread", "invalidateDay")
      <4>1. job[s] \in Flight
        BY <2>1, <3>1 DEF ReadRow, JobsAreKnown, JobIsKnown
      <4>2. /\ ServerTypes' /\ OthersStay(s) /\ pc'[s] = "invalidateDay"
            /\ job'[s] = job[s] /\ got'[s] = version[job[s]]
        BY <2>2, <3>1, <4>1, ReadRowMoves DEF Places
      <4>3. JobIsKnown(s)'
        BY <2>2, <2>11, <4>1, <4>2 DEF JobIsKnown, Reread, DataTypes, Version
      <4> QED BY <2>11, <4>2, <4>3, QuietStep DEF Reread, Data
    <3>2. CASE End(s, "reread")
      <4>1. ServerTypes' /\ OthersStay(s) /\ pc'[s] = "idle"
        BY <2>2, <3>2, EndMoves
      <4>2. JobIsKnown(s)'
        BY <4>1 DEF JobIsKnown
      <4> QED BY <2>11, <4>1, <4>2, QuietStep DEF Reread, Data
    <3> QED BY <2>11, <3>1, <3>2 DEF Reread
  <2>12. ASSUME NEW s \in Server, NEW k \in Key, NEW from \in {"invalidateDay", "invalidateAny"},
                NEW to \in {"invalidateAny", "raiseFlight"}, InvalidateKey(s, k, from, to)
         PROVE  IInv'
    <3>1. /\ ServerTypes' /\ OthersStay(s) /\ pc[s] = from /\ pc'[s] = to
          /\ job'[s] = job[s] /\ got'[s] = got[s]
      BY <2>2, <2>12, StepMoves DEF InvalidateKey, Places
    <3>2. job[s] \in Flight /\ got[s] \in Version /\ got[s] <= version[job[s]]
      BY <2>1, <3>1 DEF JobsAreKnown, JobIsKnown
    <3>3. JobIsKnown(s)'
      BY <2>12, <3>1, <3>2 DEF JobIsKnown, InvalidateKey
    <3>4. CASE UNCHANGED searchValue
      BY <2>12, <3>1, <3>3, <3>4, QuietStep DEF InvalidateKey, Data, searchKeys
    <3>5. CASE searchValue' = [searchValue EXCEPT ![k] = NoList]
      <4>1. /\ searchVer[k] \in MaybeVersion
            /\ searchVer' = [searchVer EXCEPT ![k] = searchVer[k]]
            /\ UNCHANGED <<version, flightKeys, leftStale>>
        BY <2>2, <2>12 DEF InvalidateKey, DataTypes
      <4>2. NoList \in Lists \union {NoList} /\ ~NoList.listed
        BY DEF NoList
      <4> QED BY <3>1, <3>3, <3>5, <4>1, <4>2, SearchKeysChange
    <3> QED BY <2>12, <3>4, <3>5 DEF InvalidateKey
  <2>13. ASSUME NEW s \in Server, RaiseFlightVersion(s) PROVE IInv'
    <3>1. /\ ServerTypes' /\ OthersStay(s) /\ pc[s] = "raiseFlight" /\ pc'[s] = "raiseDay"
          /\ job'[s] = job[s] /\ got'[s] = got[s]
      BY <2>2, <2>13, StepMoves DEF RaiseFlightVersion, Places
    <3>2. job[s] \in Flight /\ got[s] \in Version /\ got[s] <= version[job[s]]
      BY <2>1, <3>1 DEF JobsAreKnown, JobIsKnown
    <3>3. JobIsKnown(s)'
      BY <2>13, <3>1, <3>2 DEF JobIsKnown, RaiseFlightVersion
    <3>4. CASE UNCHANGED flightVer
      BY <2>13, <3>1, <3>3, <3>4, QuietStep DEF RaiseFlightVersion, Data, flightKeys
    <3>5. CASE Newer(got[s], flightVer[job[s]]) /\ flightVer' = [flightVer EXCEPT ![job[s]] = got[s]]
      <4> DEFINE value == flightValue[job[s]]
      <4>1. /\ value \in MaybeVersion /\ got[s] \in MaybeVersion
            /\ flightValue' = [flightValue EXCEPT ![job[s]] = value]
            /\ leftStale' \in [Flight -> BOOLEAN]
            /\ UNCHANGED <<version, searchKeys>>
        BY <2>2, <2>13, <3>2 DEF RaiseFlightVersion, DataTypes, MaybeVersion
      <4>2. value # Absent => got[s] >= value
        <5>1. value # Absent => flightVer[job[s]] >= value
          BY <2>1, <3>2 DEF KeyGuardsValue
        <5>2. value \in Int /\ flightVer[job[s]] \in Int /\ got[s] \in Int /\ (value # Absent => value >= 0)
          BY <2>2, <3>2, <4>1 DEF DataTypes, MaybeVersion, Version, Absent
        <5> HIDE DEF value
        <5> QED BY <3>5, <5>1, <5>2 DEF Newer, Absent
      <4> HIDE DEF value
      <4> QED BY <3>1, <3>2, <3>3, <3>5, <4>1, <4>2, FlightKeysChange
    <3> QED BY <2>13, <3>4, <3>5 DEF RaiseFlightVersion
  <2>14. ASSUME NEW s \in Server, RaiseSearchVersions(s) PROVE IInv'
    <3>1. CASE Step(s, "raiseDay", "raiseAny") /\ RaiseKey(s, "day")
      <4>1. /\ ServerTypes' /\ OthersStay(s) /\ pc[s] = "raiseDay" /\ pc'[s] = "raiseAny"
            /\ job'[s] = job[s] /\ got'[s] = got[s]
        BY <2>2, <3>1, StepMoves DEF Places
      <4>2. job[s] \in Flight /\ got[s] \in Version /\ got[s] <= version[job[s]]
        BY <2>1, <4>1 DEF JobsAreKnown, JobIsKnown
      <4>3. JobIsKnown(s)'
        BY <3>1, <4>1, <4>2 DEF JobIsKnown, RaiseKey
      <4> QED BY <3>1, <4>1, <4>2, <4>3, RaiseKeyKeeps DEF Key
    <3>2. CASE pc[s] = "raiseAny" /\ RaiseKey(s, "any") /\ End(s, "raiseAny")
      <4>1. ServerTypes' /\ OthersStay(s) /\ pc'[s] = "idle"
        BY <2>2, <3>2, EndMoves
      <4>2. got[s] \in Version
        BY <2>1, <3>2 DEF JobsAreKnown, JobIsKnown
      <4>3. JobIsKnown(s)'
        BY <4>1 DEF JobIsKnown
      <4> QED BY <3>2, <4>1, <4>2, <4>3, RaiseKeyKeeps DEF Key
    <3> QED BY <2>14, <3>1, <3>2 DEF RaiseSearchVersions
  <2>15. ASSUME UNCHANGED <<version, server>>, DataTypes',
                \A f \in Flight : /\ flightValue'[f] # Absent => flightVer'[f] >= flightValue'[f]
                                  /\ flightVer'[f] <= version[f],
                KeyGuardsList'
         PROVE  IInv'
    <3>1. TypeOK' /\ JobsAreKnown'
      BY <2>1, <2>15 DEF TypeOK, DataTypes, server, JobsAreKnown, JobIsKnown, Lists, Version
    <3> QED BY <2>15, <3>1 DEF IInv, KeyGuardsValue
  <2>16. ASSUME NEW f \in Flight, ExpireFlightValue(f) \/ ExpireFlightVersion(f) PROVE IInv'
    <3>1. DataTypes'
      BY <2>2, <2>16 DEF DataTypes, ExpireFlightValue, ExpireFlightVersion, searchKeys, MaybeVersion
    <3>2. ASSUME NEW g \in Flight
          PROVE  /\ flightValue'[g] # Absent => flightVer'[g] >= flightValue'[g]
                 /\ flightVer'[g] <= version[g]
      <4>1. /\ flightValue[g] # Absent => flightVer[g] >= flightValue[g]
            /\ flightVer[g] <= version[g] /\ version[g] >= Absent
        BY <2>1, <2>2 DEF KeyGuardsValue, DataTypes, Version, Absent
      <4> QED BY <2>2, <2>16, <4>1 DEF DataTypes, ExpireFlightValue, ExpireFlightVersion
    <3>3. KeyGuardsList'
      BY <2>16 DEF IInv, KeyGuardsList, ExpireFlightValue, ExpireFlightVersion, searchKeys
    <3> QED BY <2>15, <2>16, <3>1, <3>2, <3>3 DEF ExpireFlightValue, ExpireFlightVersion
  <2>17. ASSUME NEW k \in Key, ExpireSearchValue(k) \/ ExpireSearchVersion(k) PROVE IInv'
    <3>1. DataTypes'
      BY <2>2, <2>17 DEF DataTypes, ExpireSearchValue, ExpireSearchVersion, flightKeys, MaybeVersion
    <3>2. ASSUME NEW f \in Flight
          PROVE  /\ flightValue'[f] # Absent => flightVer'[f] >= flightValue'[f]
                 /\ flightVer'[f] <= version[f]
      BY <2>1, <2>17 DEF KeyGuardsValue, ExpireSearchValue, ExpireSearchVersion, flightKeys
    <3>3. KeyGuardsList'
      <4> SUFFICES ASSUME NEW j \in Key, searchValue'[j].listed
                   PROVE  searchVer'[j] >= ListVersion(searchValue'[j])
        BY DEF KeyGuardsList, ListVersion
      <4>1. searchValue'[j] = searchValue[j] /\ searchVer'[j] = searchVer[j]
        BY <2>2, <2>17 DEF DataTypes, ExpireSearchValue, ExpireSearchVersion, NoList
      <4> QED BY <4>1 DEF IInv, KeyGuardsList
    <3> QED BY <2>15, <2>17, <3>1, <3>2, <3>3 DEF ExpireSearchValue, ExpireSearchVersion
  <2>18. CASE UNCHANGED vars
    BY <2>18 DEF vars, server, flightKeys, searchKeys, IInv, KeyGuardsValue, KeyGuardsList,
                 TypeOK, JobsAreKnown, JobIsKnown
  <2>19. ASSUME NEW s \in Server, InvalidateSearch(s) PROVE IInv'
    BY <2>12, <2>19 DEF InvalidateSearch, Key
  <2>20. ASSUME NEW s \in Server, Die(s) PROVE IInv'
    <3>1. ServerTypes' /\ OthersStay(s) /\ pc'[s] = "idle"
      BY <2>2, <2>20, EndMoves DEF Die
    <3>2. JobIsKnown(s)'
      BY <3>1 DEF JobIsKnown
    <3>3. DataTypes'
      BY <2>2, <2>20 DEF Die, DataTypes, flightKeys, searchKeys
    <3>4. ASSUME NEW g \in Flight
          PROVE  /\ flightValue'[g] # Absent => flightVer'[g] >= flightValue'[g]
                 /\ flightVer'[g] <= version[g]
      BY <2>1, <2>20 DEF Die, KeyGuardsValue, flightKeys
    <3>5. KeyGuardsList'
      BY <2>20 DEF Die, IInv, KeyGuardsList, searchKeys
    <3> QED BY <2>20, <3>1, <3>2, <3>3, <3>4, <3>5, RowsStay DEF Die
  <2> QED BY <2>3, <2>4, <2>5, <2>6, <2>7, <2>8, <2>9, <2>10, <2>11, <2>13, <2>14, <2>16, <2>17,
             <2>18, <2>19, <2>20 DEF Next, Start, Continue
<1> QED BY <1>1, <1>2, PTL DEF Spec

\* The version keys of the flights are never behind the values they guard, nor
\* ahead of the database (SetFlightIfNewer, SetFlightVersion, the expiry of keys);
\* every variable has its type.
THEOREM KeysGuardValues == Spec => []KeyGuardsValue
<1>1. IInv => KeyGuardsValue
  BY DEF IInv
<1> QED BY <1>1, Inductive, PTL

-----------------------------------------------------------------------------
(* No fill puts back what a newer one has replaced. *)

LEMMA FlightStepsForward ==
  ASSUME IInv, [Next]_vars, NEW f \in Flight, flightValue[f] # Absent, flightValue'[f] # Absent
  PROVE  flightValue'[f] >= flightValue[f]
<1>1. /\ flightValue \in [Flight -> MaybeVersion] /\ flightVer \in [Flight -> MaybeVersion]
      /\ flightVer[f] >= flightValue[f] /\ JobsAreKnown
  BY DEF IInv, KeyGuardsValue, TypeOK
<1>2. /\ flightValue[f] \in Int /\ flightVer[f] \in Int /\ flightVer[f] # Absent
      /\ flightValue[f] >= flightValue[f]
  BY <1>1 DEF MaybeVersion, Version, Absent
<1>3. ASSUME NEW s \in Server, FillFlight(s) PROVE flightValue'[f] >= flightValue[f]
  <2>1. got[s] \in Int
    BY <1>1, <1>3 DEF FillFlight, JobsAreKnown, JobIsKnown, Version
  <2>2. CASE job[s] = f /\ Newer(got[s], flightVer[f]) /\ flightValue'[f] = got[s]
    BY <1>1, <1>2, <2>1, <2>2 DEF Newer
  <2>3. CASE flightValue'[f] = flightValue[f]
    BY <1>2, <2>3
  <2> QED BY <1>1, <1>3, <2>2, <2>3 DEF FillFlight, flightKeys
<1>4. ASSUME NEW s \in Server, InvalidateFlight(s) PROVE flightValue'[f] >= flightValue[f]
  BY <1>1, <1>2, <1>4 DEF InvalidateFlight
<1>5. ASSUME NEW g \in Flight, ExpireFlightValue(g) PROVE flightValue'[f] >= flightValue[f]
  BY <1>1, <1>2, <1>5 DEF ExpireFlightValue
<1>6. CASE UNCHANGED flightValue
  BY <1>2, <1>6
<1>7. UNCHANGED vars => UNCHANGED flightValue
  BY DEF vars, flightKeys
<1>8. ASSUME NEW s \in Server, NEW g \in Flight, MissFlight(s, g) \/ Commit(s, g)
      PROVE  UNCHANGED flightValue
  BY <1>8 DEF MissFlight, Commit, flightKeys
<1>9. ASSUME NEW s \in Server, NEW k \in Key, MissSearch(s, k) PROVE UNCHANGED flightValue
  BY <1>9 DEF MissSearch, flightKeys
<1>10. ASSUME NEW s \in Server,
              \/ ReadFlight(s) \/ ReadSearch(s) \/ FillSearch(s) \/ Reread(s)
              \/ InvalidateSearch(s) \/ RaiseFlightVersion(s) \/ RaiseSearchVersions(s)
       PROVE  UNCHANGED flightValue
  BY <1>10 DEF ReadFlight, ReadSearch, FillSearch, Reread, InvalidateSearch, InvalidateKey,
               RaiseFlightVersion, RaiseSearchVersions, RaiseKey, flightKeys
<1>11. ASSUME NEW g \in Flight, ExpireFlightVersion(g) PROVE UNCHANGED flightValue
  BY <1>11 DEF ExpireFlightVersion
<1>12. ASSUME NEW k \in Key, ExpireSearchValue(k) \/ ExpireSearchVersion(k)
       PROVE  UNCHANGED flightValue
  BY <1>12 DEF ExpireSearchValue, ExpireSearchVersion, flightKeys
<1>13. ASSUME NEW s \in Server, Die(s) PROVE UNCHANGED flightValue
  BY <1>13 DEF Die, flightKeys
<1> QED BY <1>3, <1>4, <1>5, <1>6, <1>7, <1>8, <1>9, <1>10, <1>11, <1>12, <1>13
        DEF Next, Start, Continue

\* cache_test.go, TestSetFlightIfNewer, for every number of handlers, flights and
\* changes, whatever commands fail and keys expire.
THEOREM FlightsNeverRegress == Spec => FlightNeverRegresses
<1>1. IInv /\ [Next]_vars =>
        [\A f \in Flight : flightValue[f] # Absent /\ flightValue'[f] # Absent =>
           flightValue'[f] >= flightValue[f]]_vars
  BY FlightStepsForward
<1> QED BY <1>1, Inductive, PTL DEF Spec, FlightNeverRegresses

\* For a list it is the largest version in it that does not go back.
LEMMA ListStepsForward ==
  ASSUME IInv, [Next]_vars, NEW k \in Key, searchValue[k].listed, searchValue'[k].listed
  PROVE  /\ searchValue[k] \in Lists /\ searchValue'[k] \in Lists
         /\ ListVersion(searchValue'[k]) >= ListVersion(searchValue[k])
<1>1. /\ searchValue \in [Key -> Lists \union {NoList}] /\ searchVer \in [Key -> MaybeVersion]
      /\ JobsAreKnown
  BY DEF IInv, KeyGuardsValue, TypeOK
<1>2. /\ searchValue[k] \in Lists
      /\ ListVersion(searchValue[k]) \in Int
      /\ searchVer[k] >= ListVersion(searchValue[k]) /\ searchVer[k] # Absent
      /\ searchVer[k] \in Int
      /\ ListVersion(searchValue[k]) >= ListVersion(searchValue[k])
  BY <1>1, ListIsGuarded DEF MaybeVersion, Version, Absent
<1>3. CASE searchValue'[k] = searchValue[k]
  BY <1>2, <1>3
<1>4. ASSUME NEW s \in Server, FillSearch(s), searchValue'[k] # searchValue[k]
      PROVE  /\ searchValue'[k] \in Lists
             /\ ListVersion(searchValue'[k]) >= ListVersion(searchValue[k])
  <2>1. /\ searchValue'[k] = list[s] /\ list[s] \in Lists
        /\ Newer(ListVersion(list[s]), searchVer[k])
    BY <1>1, <1>4 DEF FillSearch, searchKeys, JobsAreKnown, JobIsKnown
  <2>2. ListVersion(list[s]) \in Int
    BY <2>1, ListVersionIsVersion DEF Version
  <2>3. ListVersion(list[s]) >= searchVer[k]
    BY <1>2, <2>1 DEF Newer
  <2>4. ASSUME NEW x \in Int, NEW y \in Int, NEW z \in Int, x >= y, y >= z PROVE x >= z
    BY <2>4
  <2>5. ListVersion(list[s]) >= ListVersion(searchValue[k])
    BY <1>2, <2>2, <2>3, <2>4
  <2> QED BY <2>1, <2>5
<1>5. ASSUME NEW s \in Server, InvalidateSearch(s) PROVE searchValue'[k] = searchValue[k]
  BY <1>1, <1>5 DEF InvalidateSearch, InvalidateKey, NoList
<1>6. ASSUME NEW j \in Key, ExpireSearchValue(j) PROVE searchValue'[k] = searchValue[k]
  BY <1>1, <1>6 DEF ExpireSearchValue, NoList
<1>7. UNCHANGED vars => UNCHANGED searchValue
  BY DEF vars, searchKeys
<1>8. ASSUME NEW s \in Server, NEW g \in Flight, MissFlight(s, g) \/ Commit(s, g)
      PROVE  UNCHANGED searchValue
  BY <1>8 DEF MissFlight, Commit, searchKeys
<1>9. ASSUME NEW s \in Server, NEW j \in Key, MissSearch(s, j) PROVE UNCHANGED searchValue
  BY <1>9 DEF MissSearch, searchKeys
<1>10. ASSUME NEW s \in Server,
              \/ ReadFlight(s) \/ FillFlight(s) \/ ReadSearch(s) \/ InvalidateFlight(s)
              \/ Reread(s) \/ RaiseFlightVersion(s) \/ RaiseSearchVersions(s)
       PROVE  UNCHANGED searchValue
  BY <1>10 DEF ReadFlight, FillFlight, ReadSearch, InvalidateFlight, Reread,
               RaiseFlightVersion, RaiseSearchVersions, RaiseKey, searchKeys
<1>11. ASSUME NEW g \in Flight, ExpireFlightValue(g) \/ ExpireFlightVersion(g)
       PROVE  UNCHANGED searchValue
  BY <1>11 DEF ExpireFlightValue, ExpireFlightVersion, searchKeys
<1>12. ASSUME NEW j \in Key, ExpireSearchVersion(j) PROVE UNCHANGED searchValue
  BY <1>12 DEF ExpireSearchVersion
<1>13. ASSUME NEW s \in Server, Die(s) PROVE UNCHANGED searchValue
  BY <1>13 DEF Die, searchKeys
<1> QED BY <1>2, <1>3, <1>4, <1>5, <1>6, <1>7, <1>8, <1>9, <1>10, <1>11, <1>12, <1>13
        DEF Next, Start, Continue

\* No fill goes back by the number its script compares, neither GetFlight's nor
\* SearchFlights', for every number of flights and handlers, whatever calls fail,
\* handlers die and keys expire.  (That the flights of a list go back while its
\* largest version does not is what the run cache_search shows.)
THEOREM NothingRegresses == Spec => NeverRegresses
<1>1. IInv /\ [Next]_vars =>
        [\A k \in Key : searchValue[k].listed /\ searchValue'[k].listed =>
           ListVersion(searchValue'[k]) >= ListVersion(searchValue[k])]_vars
  BY ListStepsForward
<1>2. Spec => ListVersionNeverRegresses
  BY <1>1, Inductive, PTL DEF Spec, ListVersionNeverRegresses
<1> QED BY <1>2, FlightsNeverRegress DEF NeverRegresses

-----------------------------------------------------------------------------
(* Where an outdated copy comes from *)

\* An outdated flight is in the cache because a fill of GetFlight raced the change,
\* because the DEL of InvalidateFlight has failed, because the handler ended before
\* it (it died, or an error of the COMMIT sent it home), or because the DEL is still
\* to come.
THEOREM StaleByRaceOrFailure == Spec => []StaleOnlyByRaceOrFailure
<1>1. Init => StaleOnlyByRaceOrFailure
  BY DEF Init, StaleOnlyByRaceOrFailure
<1>2. IInv /\ StaleOnlyByRaceOrFailure /\ [Next]_vars => StaleOnlyByRaceOrFailure'
  <2> SUFFICES ASSUME IInv, StaleOnlyByRaceOrFailure, [Next]_vars,
                      NEW f \in Flight, flightValue'[f] # Absent, flightValue'[f] < version'[f],
                      ~leftStale'[f]
               PROVE  \E s \in Server : pc'[s] = "invalidate" /\ job'[s] = f
    BY DEF StaleOnlyByRaceOrFailure
  <2>1. TypeOK /\ JobsAreKnown
    BY DEF IInv, KeyGuardsValue
  <2>2. ASSUME flightValue[f] # Absent, flightValue[f] < version[f], ~leftStale[f],
               \A s \in Server : pc[s] = "invalidate" /\ job[s] = f =>
                                   pc'[s] = "invalidate" /\ job'[s] = f
        PROVE  \E s \in Server : pc'[s] = "invalidate" /\ job'[s] = f
    BY <2>2 DEF StaleOnlyByRaceOrFailure
  <2>3. ASSUME NEW s \in Server, NEW g \in Flight, Commit(s, g)
        PROVE  \E d \in Server : pc'[d] = "invalidate" /\ job'[d] = f
    <3>1. CASE g = f
      BY <2>1, <2>3, <3>1 DEF Commit, Begin, TypeOK
    <3>2. CASE g # f
      <4>1. /\ flightValue[f] # Absent /\ flightValue[f] < version[f] /\ ~leftStale[f]
        BY <2>1, <2>3, <3>2 DEF Commit, TypeOK, flightKeys
      <4>2. \A d \in Server : pc[d] = "invalidate" /\ job[d] = f =>
                                pc'[d] = "invalidate" /\ job'[d] = f
        BY <2>1, <2>3 DEF Commit, Begin, TypeOK, server
      <4> QED BY <2>2, <4>1, <4>2
    <3> QED BY <3>1, <3>2
  <2>4. ASSUME NEW s \in Server, FillFlight(s)
        PROVE  \E d \in Server : pc'[d] = "invalidate" /\ job'[d] = f
    <3>1. \A d \in Server : pc[d] = "invalidate" /\ job[d] = f =>
                              pc'[d] = "invalidate" /\ job'[d] = f
      BY <2>1, <2>4 DEF FillFlight, End, TypeOK
    <3>2. flightValue[f] # Absent /\ flightValue[f] < version[f] /\ ~leftStale[f]
      <4>1. UNCHANGED version
        BY <2>4 DEF FillFlight
      <4>2. CASE UNCHANGED <<flightKeys, leftStale>>
        BY <2>1, <4>1, <4>2 DEF flightKeys
      <4>3. CASE ~UNCHANGED <<flightKeys, leftStale>>
        <5>1. /\ flightValue' = [flightValue EXCEPT ![job[s]] = got[s]]
              /\ leftStale' = [leftStale EXCEPT ![job[s]] = got[s] < version[job[s]]]
          BY <2>4, <4>3 DEF FillFlight, flightKeys
        <5>2. /\ flightValue \in [Flight -> MaybeVersion]
              /\ leftStale \in [Flight -> BOOLEAN]
          BY <2>1 DEF TypeOK
        <5>3. CASE job[s] = f
          BY <2>1, <4>1, <5>1, <5>2, <5>3
        <5>4. CASE job[s] # f
          BY <2>1, <4>1, <5>1, <5>2, <5>4
        <5> QED BY <5>3, <5>4
      <4> QED BY <4>2, <4>3
    <3> QED BY <2>2, <3>1, <3>2
  <2>5. ASSUME NEW s \in Server, InvalidateFlight(s)
        PROVE  \E d \in Server : pc'[d] = "invalidate" /\ job'[d] = f
    <3>1. job[s] # f
      BY <2>1, <2>5 DEF InvalidateFlight, TypeOK
    <3>2. \A d \in Server : pc[d] = "invalidate" /\ job[d] = f =>
                              pc'[d] = "invalidate" /\ job'[d] = f
      BY <2>1, <2>5, <3>1 DEF InvalidateFlight, Step, TypeOK
    <3>3. flightValue[f] # Absent /\ flightValue[f] < version[f] /\ ~leftStale[f]
      BY <2>1, <2>5, <3>1 DEF InvalidateFlight, TypeOK
    <3> QED BY <2>2, <3>2, <3>3
  <2>6. ASSUME UNCHANGED <<version, flightValue, leftStale>>,
               \A d \in Server : pc[d] = "invalidate" /\ job[d] = f =>
                                   pc'[d] = "invalidate" /\ job'[d] = f
        PROVE  \E d \in Server : pc'[d] = "invalidate" /\ job'[d] = f
    BY <2>2, <2>6
  <2>7. ASSUME NEW s \in Server, (\E g \in Flight : MissFlight(s, g)) \/ (\E k \in Key : MissSearch(s, k))
        PROVE  \E d \in Server : pc'[d] = "invalidate" /\ job'[d] = f
    BY <2>1, <2>6, <2>7 DEF MissFlight, MissSearch, Begin, TypeOK, flightKeys
  <2>8. ASSUME NEW s \in Server, ReadFlight(s) \/ ReadSearch(s) \/ FillSearch(s) \/ Reread(s)
        PROVE  \E d \in Server : pc'[d] = "invalidate" /\ job'[d] = f
    BY <2>1, <2>6, <2>8
    DEF ReadFlight, ReadSearch, FillSearch, Reread, ReadRow, End, TypeOK, flightKeys
  <2>9. ASSUME NEW s \in Server,
               InvalidateSearch(s) \/ RaiseFlightVersion(s) \/ RaiseSearchVersions(s)
        PROVE  \E d \in Server : pc'[d] = "invalidate" /\ job'[d] = f
    BY <2>1, <2>6, <2>9
    DEF InvalidateSearch, InvalidateKey, RaiseFlightVersion, RaiseSearchVersions, RaiseKey,
        Step, End, TypeOK, flightKeys
  <2>10. ASSUME NEW g \in Flight, ExpireFlightValue(g) \/ ExpireFlightVersion(g)
         PROVE  \E d \in Server : pc'[d] = "invalidate" /\ job'[d] = f
    <3>1. CASE ExpireFlightValue(g)
      <4>1. g # f
        BY <2>1, <3>1 DEF ExpireFlightValue, TypeOK
      <4>2. flightValue[f] # Absent /\ flightValue[f] < version[f] /\ ~leftStale[f]
        BY <2>1, <3>1, <4>1 DEF ExpireFlightValue, TypeOK
      <4> QED BY <2>2, <3>1, <4>2 DEF ExpireFlightValue, server
    <3>2. CASE ExpireFlightVersion(g)
      BY <2>6, <3>2 DEF ExpireFlightVersion, server
    <3> QED BY <2>10, <3>1, <3>2
  <2>11. ASSUME NEW k \in Key, ExpireSearchValue(k) \/ ExpireSearchVersion(k)
         PROVE  \E d \in Server : pc'[d] = "invalidate" /\ job'[d] = f
    BY <2>6, <2>11 DEF ExpireSearchValue, ExpireSearchVersion, server, flightKeys
  <2>12. CASE UNCHANGED vars
    BY <2>6, <2>12 DEF vars, server, flightKeys
  <2>13. ASSUME NEW s \in Server, Die(s)
         PROVE  \E d \in Server : pc'[d] = "invalidate" /\ job'[d] = f
    <3>1. leftStale'[f] = (leftStale[f] \/ (pc[s] = "invalidate" /\ job[s] = f))
      BY <2>13 DEF Die
    <3>2. ~leftStale[f] /\ ~(pc[s] = "invalidate" /\ job[s] = f)
      BY <3>1
    <3>3. flightValue[f] # Absent /\ flightValue[f] < version[f]
      BY <2>13 DEF Die, flightKeys
    <3>4. \A d \in Server : pc[d] = "invalidate" /\ job[d] = f =>
                              pc'[d] = "invalidate" /\ job'[d] = f
      BY <2>1, <2>13, <3>2 DEF Die, End, TypeOK
    <3> QED BY <2>2, <3>2, <3>3, <3>4
  <2> QED BY <2>3, <2>4, <2>5, <2>7, <2>8, <2>9, <2>10, <2>11, <2>12, <2>13
          DEF Next, Start, Continue
<1> QED BY <1>1, <1>2, Inductive, PTL DEF Spec
=============================================================================
