---------------------------- MODULE Roster_proofs ----------------------------
(***************************************************************************)
(* Proofs about the roster, for every list of directories, any             *)
(* frontmatters, and any number of threads, calls and edits.               *)
(***************************************************************************)
EXTENDS Roster, DataLemmas

-----------------------------------------------------------------------------
(* Types                                                                   *)

Entries == [name : {h.name : h \in Header}, skill : Dir, from : Dir, edit : 0..MaxEdits]
Keys == UNION {[D -> 0..MaxEdits] : D \in SUBSET Dir}
Points == {"idle", "key", "check", "serve", "scan", "store key", "found"}
Calls == [pc : Points, refresh : BOOLEAN, key : Keys, listed : SUBSET Dir,
          todo : Seq(Dir), found : Seq(Entries), since : 0..MaxEdits]

Listed == {d \in Dir : disk[d] # NoFile}

DiskOK ==
    /\ disk \in [Dir -> File \cup {NoFile}]
    /\ edits \in 0..MaxEdits
    /\ \A d \in Listed : disk[d].edit <= edits /\ disk[d].written <= edits

CacheOK ==
    /\ cache # NoScan => cache = Held(Head(cache)) /\ Head(cache) \in Seq(Entries)
    /\ cache_key \in Keys

CallOK ==
    /\ call \in [Call -> Calls]
    /\ \A c \in Call : call[c].since <= edits

HistoryOK == as_of \in 0..edits /\ blind \in BOOLEAN /\ crowded \in BOOLEAN

TypeOK == DiskOK /\ CacheOK /\ CallOK /\ HistoryOK

-----------------------------------------------------------------------------
(* What one directory contributes                                          *)

LEMMA FileFacts ==
    ASSUME DiskOK, NEW d \in Dir, disk[d] # NoFile
    PROVE  /\ disk[d] \in File
           /\ disk[d].front \in Header /\ disk[d].edit \in 0..MaxEdits
           /\ disk[d].written \in 0..MaxEdits
           /\ disk[d].front.department \in Dir \cup {Blank} /\ disk[d].front.valid \in BOOLEAN
BY RosterAssumption DEF DiskOK, File

LEMMA FileIsThere == \A f \in File : f # NoFile
BY DEF File, NoFile

LEMMA EntryFacts ==
    ASSUME DiskOK, NEW d \in Dir, disk[d] # NoFile
    PROVE  LET e == Entry(d, disk[d])
           IN  /\ e \in Entries /\ e.from = d /\ e.edit = disk[d].edit
               /\ SpecName(e) = IF disk[d].front.name # Blank THEN disk[d].front.name
                                ELSE IF disk[d].front.department # Blank
                                THEN disk[d].front.department ELSE d
BY FileFacts DEF Entry, Entries, SpecName

LEMMA ParsedFacts ==
    ASSUME DiskOK, NEW d \in Dir
    PROVE  /\ Parsed(d) \in Seq(Entries)
           /\ IF disk[d] # NoFile /\ disk[d].front.valid
              THEN Parsed(d) = <<Entry(d, disk[d])>> ELSE Parsed(d) = <<>>
<1>1. disk[d] # NoFile => Entry(d, disk[d]) \in Entries
  BY EntryFacts
<1> QED
  BY <1>1 DEF Parsed

-----------------------------------------------------------------------------
(* What a scan finds                                                       *)

Pieces(k) == [i \in 1..k |-> Parsed(Dirs[i])]
Prefix(k) == FlattenSeq(Pieces(k))

LEMMA DirFacts ==
    /\ Len(Dirs) \in Nat /\ DOMAIN Dirs = 1..Len(Dirs)
    /\ \A i \in 1..Len(Dirs) : Dirs[i] \in Dir
    /\ \A i, j \in 1..Len(Dirs) : Dirs[i] = Dirs[j] => i = j
<1>1. Dirs \in Seq(Dir) /\ IsInjective(Dirs)
  BY RosterAssumption
<1> QED
  BY <1>1 DEF IsInjective

LEMMA PrefixZero == Prefix(0) = <<>>
<1>1. Pieces(0) = <<>>
  BY DEF Pieces
<1> QED
  BY <1>1, FlattenEmpty DEF Prefix

LEMMA PrefixNext ==
    ASSUME DiskOK, NEW k \in 0..Len(Dirs), k < Len(Dirs)
    PROVE  Prefix(k + 1) = Prefix(k) \o Parsed(Dirs[k + 1])
<1>1. /\ \A i \in 1..k + 1 : Dirs[i] \in Dir
      /\ k \in Nat /\ k + 1 \in 1..k + 1
  BY DirFacts
<1>2. \A i \in 1..k + 1 : Parsed(Dirs[i]) \in Seq(Entries)
  BY <1>1, ParsedFacts
<1>3. Pieces(k) \in Seq(Seq(Entries)) /\ Len(Pieces(k)) = k
  BY <1>1, <1>2 DEF Pieces
<1>4. Pieces(k + 1) = Append(Pieces(k), Parsed(Dirs[k + 1]))
  BY <1>1, <1>2, <1>3 DEF Pieces
<1> QED
  BY <1>1, <1>2, <1>3, <1>4, FlattenAppend DEF Prefix

LEMMA ScannedIsPrefix == Scanned = Prefix(Len(Dirs))
BY DirFacts DEF Scanned, Prefix, Pieces

\* The files a scan takes up, by the place of their directory
Valid(p) == disk[Dirs[p]] # NoFile /\ disk[Dirs[p]].front.valid
Found(p) == Entry(Dirs[p], disk[Dirs[p]])
Place(d) == CHOOSE p \in DOMAIN Dirs : Dirs[p] = d
Before == {e \in Entries \X Entries : Place(e[1].from) < Place(e[2].from)}

LEMMA PlaceOf ==
    ASSUME NEW p \in 1..Len(Dirs)
    PROVE  Place(Dirs[p]) = p
BY DirFacts DEF Place

LEMMA FoundFacts ==
    ASSUME DiskOK, NEW p \in 1..Len(Dirs), Valid(p)
    PROVE  Found(p) \in Entries /\ Place(Found(p).from) = p
BY DirFacts, EntryFacts, PlaceOf DEF Valid, Found

\* Each well-formed file is found once, in the order of the directories.
LEMMA PrefixFacts ==
    ASSUME DiskOK
    PROVE  \A k \in 0..Len(Dirs) :
               /\ Prefix(k) \in Seq(Entries)
               /\ Range(Prefix(k)) = {Found(p) : p \in {q \in 1..k : Valid(q)}}
               /\ Sorted(Prefix(k), Before)
<1> DEFINE Good(k) == /\ Prefix(k) \in Seq(Entries)
                      /\ Range(Prefix(k)) = {Found(p) : p \in {q \in 1..k : Valid(q)}}
                      /\ Sorted(Prefix(k), Before)
           P == {k \in Nat : k <= Len(Dirs) => Good(k)}
<1>1. 0 \in P
  <2>1. {Found(p) : p \in {q \in 1..0 : Valid(q)}} = {}
    OBVIOUS
  <2>2. /\ Prefix(0) \in Seq(Entries) /\ Range(Prefix(0)) = {}
        /\ Sorted(Prefix(0), Before)
    <3>1. <<>> \in Seq(Entries) /\ Range(<<>>) = {}
      BY EmptyFacts
    <3>2. Sorted(<<>>, Before)
      BY EmptySorted
    <3> QED
      BY <3>1, <3>2, PrefixZero
  <2> QED
    BY <2>1, <2>2
<1>2. ASSUME NEW k \in P PROVE k + 1 \in P
  <2>1. SUFFICES ASSUME k + 1 <= Len(Dirs) PROVE Good(k + 1)
    OBVIOUS
  <2>2. /\ Good(k) /\ k \in 0..Len(Dirs) /\ k < Len(Dirs) /\ k + 1 \in 1..Len(Dirs) /\ k \in Nat
    BY <2>1, DirFacts
  <2>3. Prefix(k + 1) = Prefix(k) \o Parsed(Dirs[k + 1])
    BY <2>2, PrefixNext
  <2>4. 1..k + 1 = 1..k \cup {k + 1}
    BY <2>2
  <2>5. CASE Valid(k + 1)
    <3>1. Parsed(Dirs[k + 1]) = <<Found(k + 1)>> /\ Found(k + 1) \in Entries
      BY <2>2, <2>5, DirFacts, ParsedFacts, FoundFacts DEF Valid, Found
    <3>2. Prefix(k + 1) = Append(Prefix(k), Found(k + 1))
      BY <2>2, <2>3, <3>1, AppendIsConcat
    <3>3. Range(Prefix(k + 1)) = Range(Prefix(k)) \cup {Found(k + 1)} /\ Prefix(k + 1) \in Seq(Entries)
      <4> DEFINE s == Prefix(k)
                 e == Found(k + 1)
      <4>1. s \in Seq(Entries) /\ e \in Entries
        BY <2>2, <3>1
      <4> HIDE DEF s, e
      <4>2. Range(Append(s, e)) = Range(s) \cup {e} /\ Append(s, e) \in Seq(Entries)
        BY <4>1, AppendFacts, AppendProperties
      <4> QED
        BY <3>2, <4>2 DEF s, e
    <3>4. ASSUME NEW e \in Range(Prefix(k)) PROVE <<e, Found(k + 1)>> \in Before
      <4>1. PICK p \in 1..k : Valid(p) /\ e = Found(p)
        BY <2>2
      <4>2. p \in 1..Len(Dirs) /\ p < k + 1
        BY <2>2
      <4> QED
        BY <2>2, <2>5, <4>1, <4>2, FoundFacts DEF Before
    <3>5. Sorted(Prefix(k + 1), Before)
      <4> DEFINE s == Prefix(k)
                 e == Found(k + 1)
      <4>1. /\ s \in Seq(Entries) /\ e \in Entries /\ Sorted(s, Before)
            /\ \A a \in Range(s) : <<a, e>> \in Before
        BY <2>2, <3>1, <3>4
      <4> HIDE DEF s, e
      <4>2. Sorted(Append(s, e), Before)
        BY <4>1, AppendSorted
      <4> QED
        BY <3>2, <4>2 DEF s, e
    <3>6. {Found(p) : p \in {q \in 1..k + 1 : Valid(q)}}
          = {Found(p) : p \in {q \in 1..k : Valid(q)}} \cup {Found(k + 1)}
      BY <2>4, <2>5
    <3> QED
      BY <2>2, <3>3, <3>5, <3>6
  <2>6. CASE ~Valid(k + 1)
    <3>1. Parsed(Dirs[k + 1]) = <<>>
      BY <2>2, <2>6, DirFacts, ParsedFacts DEF Valid
    <3>2. Prefix(k + 1) = Prefix(k)
      BY <2>2, <2>3, <3>1, ConcatEmptySeq
    <3>3. {q \in 1..k + 1 : Valid(q)} = {q \in 1..k : Valid(q)}
      BY <2>4, <2>6
    <3> QED
      BY <2>2, <3>2, <3>3
  <2> QED
    BY <2>5, <2>6
<1>3. P = Nat
  <2> HIDE DEF P
  <2>1. P \in SUBSET Nat
    BY DEF P
  <2> QED
    BY <1>1, <1>2, <2>1, InductiveSet
<1>4. ASSUME NEW k \in 0..Len(Dirs) PROVE Good(k)
  BY <1>3, DirFacts
<1> QED
  BY <1>4

\* The scan of a tree that stands still.
LEMMA ScannedFacts ==
    ASSUME DiskOK
    PROVE  /\ Scanned \in Seq(Entries)
           /\ Range(Scanned) = {Found(p) : p \in {q \in 1..Len(Dirs) : Valid(q)}}
           /\ Sorted(Scanned, Before)
BY DirFacts, PrefixFacts, ScannedIsPrefix

-----------------------------------------------------------------------------
(* The registry of a scan                                                  *)

\* Every local spec is made of an entry the scan has found.
LEMMA SpecOf ==
    ASSUME NEW found \in Seq(Entries), NEW n \in DOMAIN Registry(found)
    PROVE  /\ (Registry(found)[n].kind = "tool_loop") <=> n \notin Remote
           /\ n \notin Remote =>
                 \E i \in DOMAIN found :
                     /\ Registry(found)[n] = LocalSpec(found[i])
                     /\ SpecName(found[i]) = n
                     /\ \A j \in 1..i - 1 : SpecName(found[j]) # n
<1>1. CASE n \in Remote
  BY <1>1 DEF Registry, RemoteSpec
<1>2. CASE n \notin Remote
  <2> DEFINE named == {i \in DOMAIN found : SpecName(found[i]) = n}
             First(i) == SpecName(found[i]) = n /\ \A j \in 1..i - 1 : SpecName(found[j]) # n
             i == CHOOSE k \in DOMAIN found : First(k)
  <2>1. Registry(found)[n] = LocalSpec(found[i])
    BY <1>2 DEF Registry, SkillSpecs
  <2>2. named # {} /\ named \in SUBSET Nat
    BY <1>2 DEF Registry, SkillSpecs
  <2>3. PICK k \in named : \A m \in named : k <= m
    BY <2>2, LeastNat
  <2>4. k \in DOMAIN found /\ First(k)
    BY <2>3
  <2>5. i \in DOMAIN found /\ First(i)
    BY <2>4
  <2> HIDE DEF i
  <2>6. LocalSpec(found[i]).kind = "tool_loop"
    BY DEF LocalSpec
  <2> QED
    BY <1>2, <2>1, <2>5, <2>6
<1> QED
  BY <1>1, <1>2

LEMMA DomainOf ==
    ASSUME NEW found
    PROVE  DOMAIN Registry(found) = Remote \cup {SpecName(found[i]) : i \in DOMAIN found}
BY DEF Registry, SkillSpecs

LEMMA MinOf ==
    ASSUME NEW S \in SUBSET Nat, NEW m \in S, \A y \in S : m <= y
    PROVE  Min(S) = m
<1>1. Min(S) \in S /\ \A y \in S : Min(S) <= y
  BY DEF Min
<1> DEFINE x == Min(S)
<1> HIDE DEF x
<1>2. x \in Nat /\ m \in Nat /\ x <= m /\ m <= x
  BY <1>1 DEF x
<1>3. x = m
  BY <1>2
<1> QED
  BY <1>3 DEF x

\* The registry of the whole tree names what its files declare, and of two
\* directories that declare a name the first.
LEMMA RegistryExact ==
    ASSUME DiskOK, NEW n
    PROVE  LET specs == Registry(Scanned)
           IN  /\ n \in DOMAIN specs <=> n \in Remote \/ Declaring(n) # {}
               /\ n \in DOMAIN specs => (specs[n].kind = "tool_loop" <=> n \notin Remote)
               /\ n \in DOMAIN specs /\ n \notin Remote
                     => specs[n].from = Dirs[Min(Declaring(n))]
<1> DEFINE found == Scanned
           specs == Registry(found)
<1>1. /\ found \in Seq(Entries)
      /\ Range(found) = {Found(p) : p \in {q \in 1..Len(Dirs) : Valid(q)}}
      /\ Sorted(found, Before)
  BY ScannedFacts
<1>2. ASSUME NEW p \in 1..Len(Dirs)
      PROVE  p \in Declaring(n) <=> Valid(p) /\ SpecName(Found(p)) = n
  BY DirFacts, EntryFacts DEF Declaring, Valid, Found
<1>3. Declaring(n) \subseteq 1..Len(Dirs) /\ Declaring(n) \in SUBSET Nat
  BY DirFacts DEF Declaring
<1> HIDE DEF found
<1>4. ASSUME NEW i \in DOMAIN found
      PROVE  \E p \in 1..Len(Dirs) : Valid(p) /\ found[i] = Found(p)
  <2>1. found[i] \in Range(found)
    BY DEF Range
  <2> QED
    BY <1>1, <2>1
<1>5. ASSUME NEW p \in 1..Len(Dirs), Valid(p)
      PROVE  \E i \in DOMAIN found : found[i] = Found(p)
  <2>1. Found(p) \in Range(found)
    BY <1>1, <1>5
  <2> QED
    BY <2>1 DEF Range
<1>6. n \in DOMAIN specs <=> n \in Remote \/ Declaring(n) # {}
  <2>1. (\E i \in DOMAIN found : SpecName(found[i]) = n)
        <=> \E p \in 1..Len(Dirs) : Valid(p) /\ SpecName(Found(p)) = n
    BY <1>4, <1>5
  <2>2. (\E p \in 1..Len(Dirs) : Valid(p) /\ SpecName(Found(p)) = n) <=> Declaring(n) # {}
    BY <1>2, <1>3
  <2>3. DOMAIN specs = Remote \cup {SpecName(found[i]) : i \in DOMAIN found}
    BY DomainOf
  <2> QED
    BY <2>1, <2>2, <2>3
<1>7. ASSUME n \in DOMAIN specs, n \notin Remote
      PROVE  specs[n].from = Dirs[Min(Declaring(n))]
  <2>1. PICK i \in DOMAIN found :
            /\ specs[n] = LocalSpec(found[i])
            /\ SpecName(found[i]) = n
            /\ \A j \in 1..i - 1 : SpecName(found[j]) # n
    BY <1>1, <1>7, SpecOf
  <2>2. PICK p \in 1..Len(Dirs) : Valid(p) /\ found[i] = Found(p)
    BY <1>4
  <2>3. p \in Declaring(n)
    BY <1>2, <2>1, <2>2
  <2>4. ASSUME NEW q \in Declaring(n) PROVE p <= q
    <3>1. q \in 1..Len(Dirs) /\ Valid(q) /\ SpecName(Found(q)) = n
      BY <1>2, <1>3
    <3>2. PICK j \in DOMAIN found : found[j] = Found(q)
      BY <1>5, <3>1
    <3>3. ~(j < i)
      <4>1. i \in Nat /\ j \in 1..Len(found) /\ i \in 1..Len(found)
        BY <1>1
      <4> QED
        BY <2>1, <3>1, <3>2, <4>1
    <3>4. i < j => <<found[i], found[j]>> \in Before
      BY <1>1 DEF Sorted
    <3>5. Place(found[i].from) = p /\ Place(found[j].from) = q
      BY <2>2, <3>1, <3>2, FoundFacts
    <3>6. i = j => p = q
      BY <3>5
    <3>7. i \in Nat /\ j \in Nat
      BY <1>1
    <3>8. i < j => p < q
      BY <3>4, <3>5 DEF Before
    <3>9. p \in Nat /\ q \in Nat
      BY <3>1, DirFacts
    <3> QED
      BY <3>3, <3>6, <3>7, <3>8, <3>9
  <2>5. Min(Declaring(n)) = p
    BY <1>3, <2>3, <2>4, MinOf
  <2>6. specs[n].from = Dirs[p]
    BY <2>1, <2>2 DEF LocalSpec, Found, Entry
  <2> QED
    BY <2>5, <2>6
<1>8. n \in DOMAIN specs => (specs[n].kind = "tool_loop" <=> n \notin Remote)
  BY <1>1, SpecOf
<1> HIDE DEF specs
<1>9. specs = Registry(Scanned)
  BY DEF specs, found
<1> QED
  BY <1>6, <1>7, <1>8, <1>9

-----------------------------------------------------------------------------
(* Every variable keeps its type                                           *)

LEMMA KeyFacts ==
    ASSUME DiskOK
    PROVE  /\ TreeKey \in Keys /\ <<>> \in Keys
           /\ DOMAIN TreeKey = Listed
           /\ \A d \in Listed : TreeKey[d] = disk[d].written
<1>1. DOMAIN TreeKey = Listed /\ \A d \in Listed : TreeKey[d] = disk[d].written
  BY DEF TreeKey, Listed
<1>2. \A d \in Listed : disk[d].written \in 0..MaxEdits
  BY FileFacts DEF Listed
<1>3. TreeKey \in [Listed -> 0..MaxEdits]
  BY <1>2 DEF TreeKey, Listed
<1>4. <<>> \in [{} -> 0..MaxEdits]
  OBVIOUS
<1>5. Listed \in SUBSET Dir /\ {} \in SUBSET Dir
  BY DEF Listed
<1> HIDE DEF Listed
<1> QED
  BY <1>1, <1>3, <1>4, <1>5 DEF Keys

LEMMA IdleType == Idle \in Calls
<1>1. <<>> \in Keys
  <2>1. <<>> \in [{} -> 0..MaxEdits]
    OBVIOUS
  <2> QED
    BY <2>1 DEF Keys
<1>2. <<>> \in Seq(Dir) /\ <<>> \in Seq(Entries)
  OBVIOUS
<1>3. 0 \in 0..MaxEdits
  BY RosterAssumption
<1> QED
  BY <1>1, <1>2, <1>3 DEF Idle, Calls, Points

\* One call moves on.
LEMMA CallMoves ==
    ASSUME TypeOK, NEW c \in Call, NEW r \in Calls, call' = [call EXCEPT ![c] = r],
           r.since <= edits, edits' = edits
    PROVE  CallOK' /\ call'[c] = r /\ \A b \in Call \ {c} : call'[b] = call[b]
BY DEF TypeOK, CallOK

LEMMA TypeInit == Init => TypeOK
<1> SUFFICES ASSUME Init PROVE TypeOK
  OBVIOUS
<1>1. DiskOK
  <2>1. 0 \in 0..MaxEdits
    BY RosterAssumption
  <2>2. \A d \in Dir : [front |-> Shipped(d), edit |-> 0, written |-> 0] \in File
    BY <2>1, RosterAssumption DEF File
  <2>3. disk \in [Dir -> File]
    BY <2>2 DEF Init
  <2>4. edits = 0 /\ \A d \in Dir : disk[d].edit = 0 /\ disk[d].written = 0
    BY DEF Init
  <2> QED
    BY <2>1, <2>3, <2>4 DEF DiskOK, Listed
<1>2. CallOK
  <2>1. Idle.since = 0
    BY DEF Idle
  <2> QED
    BY <2>1, IdleType DEF Init, CallOK
<1>3. HistoryOK
  <2>1. as_of = 0 /\ edits = 0 /\ blind \in BOOLEAN /\ crowded \in BOOLEAN
    BY DEF Init
  <2> QED
    BY <2>1 DEF HistoryOK
<1>4. CacheOK
  <2>1. cache = Held(Scanned) /\ cache_key = TreeKey
    BY DEF Init
  <2>2. Head(Held(Scanned)) = Scanned
    BY DEF Held
  <2> QED
    BY <1>1, <2>1, <2>2, ScannedFacts, KeyFacts DEF CacheOK
<1> QED
  BY <1>1, <1>2, <1>3, <1>4 DEF TypeOK

\* What a step makes of its call.
LEMMA CallStep ==
    ASSUME TypeOK, NEW c \in Call, Step(c) \/ Discover(c) \/ Refresh(c)
    PROVE  \E r \in Calls : call' = [call EXCEPT ![c] = r] /\ r.since <= edits
<1> DEFINE old == call[c]
<1>0. /\ old \in Calls /\ old.since <= edits /\ edits \in 0..MaxEdits /\ DiskOK
      /\ call \in [Call -> Calls]
  BY DEF TypeOK, CallOK, DiskOK
<1>1. ASSUME Discover(c) \/ Refresh(c)
      PROVE  \E r \in Calls : call' = [call EXCEPT ![c] = r] /\ r.since <= edits
  <2> DEFINE r(b) == [Idle EXCEPT !.pc = "key", !.refresh = b, !.since = edits]
  <2>1. ASSUME NEW b \in BOOLEAN PROVE r(b) \in Calls /\ r(b).since <= edits
    <3>1. Idle \in Calls /\ "key" \in Points /\ edits <= edits
      BY <1>0, IdleType DEF Points
    <3> QED
      BY <1>0, <3>1 DEF Calls
  <2>2. \E b \in BOOLEAN : call' = [call EXCEPT ![c] = r(b)]
    BY <1>1 DEF Discover, Refresh, Begins
  <2> QED
    BY <2>1, <2>2
<1>2. CASE HashTree(c)
  <2> DEFINE r == [old EXCEPT !.key = TreeKey, !.pc = "check"]
  <2>1. r \in Calls /\ r.since <= edits
    BY <1>0, KeyFacts DEF Calls, Points
  <2>2. call' = [call EXCEPT ![c] = r]
    BY <1>0, <1>2 DEF HashTree
  <2> QED
    BY <2>1, <2>2
<1>3. ASSUME NEW p \in Points, Goes(c, p)
      PROVE  \E r \in Calls : call' = [call EXCEPT ![c] = r] /\ r.since <= edits
  <2> DEFINE r == [old EXCEPT !.pc = p]
  <2>1. r \in Calls /\ r.since <= edits
    BY <1>0 DEF Calls
  <2>2. call' = [call EXCEPT ![c] = r]
    BY <1>0, <1>3 DEF Goes
  <2> QED
    BY <2>1, <2>2
<1>4. CASE Hit(c) \/ StoreScan(c) \/ StoreKey(c)
  BY <1>3, <1>4 DEF Hit, StoreScan, StoreKey, Points
<1>5. CASE Serve(c)
  <2> DEFINE r == [old EXCEPT !.found = Head(cache), !.pc = "found"]
  <2>1. Head(cache) \in Seq(Entries)
    BY <1>5 DEF Serve, TypeOK, CacheOK
  <2>2. r \in Calls /\ r.since <= edits
    BY <1>0, <2>1 DEF Calls, Points
  <2>3. call' = [call EXCEPT ![c] = r]
    BY <1>0, <1>5 DEF Serve
  <2> QED
    BY <2>2, <2>3
<1>6. CASE ServesNone(c) \/ Bind(c)
  <2>1. call' = [call EXCEPT ![c] = Idle]
    BY <1>6 DEF ServesNone, Bind
  <2>2. Idle.since <= edits
    BY <1>0, RosterAssumption DEF Idle
  <2> QED
    BY <2>1, <2>2, IdleType
<1>7. CASE Miss(c)
  <2> DEFINE r == [old EXCEPT !.pc = "scan", !.listed = Listed, !.todo = Dirs]
  <2>1. Listed \in SUBSET Dir /\ Dirs \in Seq(Dir)
    BY RosterAssumption DEF Listed
  <2>2. r \in Calls /\ r.since <= edits
    BY <1>0, <2>1 DEF Calls, Points
  <2>3. call' = [call EXCEPT ![c] = r]
    BY <1>0, <1>7 DEF Miss, Listed
  <2> QED
    BY <2>2, <2>3
<1>8. CASE ScanOne(c)
  <2> DEFINE d == Head(old.todo)
             found == IF d \in old.listed THEN old.found \o Parsed(d) ELSE old.found
             r == [old EXCEPT !.found = found, !.todo = Tail(old.todo)]
  <2>1. old.todo # <<>> /\ old.todo \in Seq(Dir) /\ old.found \in Seq(Entries)
    BY <1>0, <1>8 DEF ScanOne, Calls
  <2>2. d \in Dir /\ Tail(old.todo) \in Seq(Dir)
    BY <2>1
  <2>3. Parsed(d) \in Seq(Entries)
    BY <1>0, <2>2, ParsedFacts
  <2>4. found \in Seq(Entries)
    BY <2>1, <2>3
  <2>5. call' = [call EXCEPT ![c] = r]
    BY <1>0, <1>8 DEF ScanOne
  <2> HIDE DEF found
  <2>6. r \in Calls /\ r.since <= edits
    BY <1>0, <2>2, <2>4 DEF Calls
  <2> QED
    BY <2>5, <2>6
<1> QED
  BY <1>1, <1>2, <1>4, <1>5, <1>6, <1>7, <1>8 DEF Step

\* The fields a step changes.
Keeps(old, new) ==
    new.refresh = old.refresh /\ new.since = old.since

LEMMA CallFields ==
    ASSUME TypeOK, NEW c \in Call
    PROVE  LET old == call[c]
               new == call'[c]
           IN  /\ Discover(c) \/ Refresh(c) =>
                      /\ old.pc = "idle" /\ new.pc = "key" /\ new.since = edits /\ new.found = <<>>
                      /\ new.key = <<>> /\ (Refresh(c) => new.refresh = TRUE)
                      /\ (Discover(c) => new.refresh = FALSE)
               /\ HashTree(c) => /\ old.pc = "key" /\ new.pc = "check" /\ new.key = TreeKey
                                 /\ Keeps(old, new) /\ new.found = old.found
               /\ Hit(c) => /\ old.pc = "check" /\ new.pc = "serve" /\ new.key = old.key
                            /\ Keeps(old, new) /\ new.found = old.found
               /\ Serve(c) => /\ old.pc = "serve" /\ new.pc = "found" /\ new.key = old.key
                              /\ Keeps(old, new) /\ new.found = Head(cache)
               /\ Miss(c) => /\ old.pc = "check" /\ new.pc = "scan" /\ new.key = old.key
                             /\ Keeps(old, new) /\ new.found = old.found
                             /\ new.listed = Listed /\ new.todo = Dirs
               /\ ScanOne(c) => /\ old.pc = "scan" /\ new.pc = "scan" /\ new.key = old.key
                                /\ Keeps(old, new) /\ new.listed = old.listed
                                /\ old.todo # <<>> /\ new.todo = Tail(old.todo)
                                /\ new.found = IF Head(old.todo) \in old.listed
                                               THEN old.found \o Parsed(Head(old.todo)) ELSE old.found
               /\ StoreScan(c) => /\ old.pc = "scan" /\ new.pc = "store key" /\ new.key = old.key
                                  /\ Keeps(old, new) /\ new.found = old.found
                                  /\ old.todo = <<>> /\ cache' = Held(old.found)
               /\ StoreKey(c) => /\ old.pc = "store key" /\ new.pc = "found" /\ new.key = old.key
                                 /\ Keeps(old, new) /\ new.found = old.found
               /\ ServesNone(c) \/ Bind(c) => new = Idle
<1>0. call \in [Call -> Calls] /\ call[c] \in Calls
  BY DEF TypeOK, CallOK
<1>1. ASSUME Discover(c) \/ Refresh(c)
      PROVE  /\ call[c].pc = "idle" /\ call'[c].pc = "key" /\ call'[c].since = edits
             /\ call'[c].found = <<>> /\ call'[c].key = <<>>
             /\ (Refresh(c) => call'[c].refresh = TRUE)
             /\ (Discover(c) => call'[c].refresh = FALSE)
  <2> DEFINE r(b) == [Idle EXCEPT !.pc = "key", !.refresh = b, !.since = edits]
  <2>1. \A b : /\ r(b).pc = "key" /\ r(b).since = edits /\ r(b).found = <<>> /\ r(b).key = <<>>
               /\ r(b).refresh = b
    BY DEF Idle
  <2>0. Discover(c) /\ Refresh(c) => FALSE
    <3>1. Discover(c) => call'[c] = r(FALSE)
      BY <1>0 DEF Discover, Begins
    <3>2. Refresh(c) => call'[c] = r(TRUE)
      BY <1>0 DEF Refresh, Begins
    <3>3. r(FALSE).refresh = FALSE /\ r(TRUE).refresh = TRUE
      BY <2>1
    <3> QED
      BY <3>1, <3>2, <3>3
  <2> HIDE DEF r
  <2>2. CASE Discover(c)
    <3>1. call' = [call EXCEPT ![c] = r(FALSE)] /\ call[c].pc = "idle"
      BY <2>2 DEF Discover, Begins, r
    <3>2. call'[c] = r(FALSE)
      BY <1>0, <3>1
    <3>3. r(FALSE).refresh = FALSE
      BY <2>1
    <3> QED
      BY <2>0, <2>1, <2>2, <3>1, <3>2, <3>3
  <2>3. CASE Refresh(c)
    <3>1. call' = [call EXCEPT ![c] = r(TRUE)] /\ call[c].pc = "idle"
      BY <2>3 DEF Refresh, Begins, r
    <3>2. call'[c] = r(TRUE)
      BY <1>0, <3>1
    <3>3. r(TRUE).refresh = TRUE
      BY <2>1
    <3> QED
      BY <2>0, <2>1, <2>3, <3>1, <3>2, <3>3
  <2> QED
    BY <1>1, <2>2, <2>3
<1>2. HashTree(c) => call'[c] = [call[c] EXCEPT !.key = TreeKey, !.pc = "check"] /\ call[c].pc = "key"
  BY <1>0 DEF HashTree
<1>3. /\ Hit(c) => call'[c] = [call[c] EXCEPT !.pc = "serve"] /\ call[c].pc = "check"
      /\ StoreScan(c) => call'[c] = [call[c] EXCEPT !.pc = "store key"] /\ call[c].pc = "scan"
      /\ StoreKey(c) => call'[c] = [call[c] EXCEPT !.pc = "found"] /\ call[c].pc = "store key"
  BY <1>0 DEF Hit, StoreScan, StoreKey, Goes
<1>4. Serve(c) => call'[c] = [call[c] EXCEPT !.found = Head(cache), !.pc = "found"] /\ call[c].pc = "serve"
  BY <1>0 DEF Serve
<1>5. Miss(c) => /\ call'[c] = [call[c] EXCEPT !.pc = "scan", !.listed = Listed, !.todo = Dirs]
                 /\ call[c].pc = "check"
  BY <1>0 DEF Miss, Listed
<1>6. ScanOne(c) =>
          /\ call'[c] = [call[c] EXCEPT
                 !.found = IF Head(call[c].todo) \in call[c].listed
                           THEN call[c].found \o Parsed(Head(call[c].todo)) ELSE call[c].found,
                 !.todo = Tail(call[c].todo)]
          /\ call[c].pc = "scan" /\ call[c].todo # <<>>
  BY <1>0 DEF ScanOne
<1>7. ServesNone(c) \/ Bind(c) => call'[c] = Idle
  BY <1>0 DEF ServesNone, Bind
<1>8. HashTree(c) => /\ call[c].pc = "key" /\ call'[c].pc = "check" /\ call'[c].key = TreeKey
                     /\ Keeps(call[c], call'[c]) /\ call'[c].found = call[c].found
  BY <1>0, <1>2 DEF Calls, Keeps
<1>9. Hit(c) \/ StoreScan(c) \/ StoreKey(c) =>
          call'[c].key = call[c].key /\ Keeps(call[c], call'[c]) /\ call'[c].found = call[c].found
  BY <1>0, <1>3 DEF Calls, Keeps
<1>10. /\ Hit(c) => call[c].pc = "check" /\ call'[c].pc = "serve"
       /\ StoreScan(c) => /\ call[c].pc = "scan" /\ call'[c].pc = "store key"
                          /\ call[c].todo = <<>> /\ cache' = Held(call[c].found)
       /\ StoreKey(c) => call[c].pc = "store key" /\ call'[c].pc = "found"
  BY <1>0, <1>3 DEF Calls, StoreScan
<1>11. Serve(c) => /\ call[c].pc = "serve" /\ call'[c].pc = "found" /\ call'[c].key = call[c].key
                   /\ Keeps(call[c], call'[c]) /\ call'[c].found = Head(cache)
  BY <1>0, <1>4 DEF Calls, Keeps
<1>12. Miss(c) => /\ call[c].pc = "check" /\ call'[c].pc = "scan" /\ call'[c].key = call[c].key
                  /\ Keeps(call[c], call'[c]) /\ call'[c].found = call[c].found
                  /\ call'[c].listed = Listed /\ call'[c].todo = Dirs
  BY <1>0, <1>5 DEF Calls, Keeps
<1>13. ScanOne(c) => /\ call'[c].pc = "scan" /\ call'[c].key = call[c].key
                     /\ Keeps(call[c], call'[c]) /\ call'[c].listed = call[c].listed
                     /\ call'[c].todo = Tail(call[c].todo)
                     /\ call'[c].found = IF Head(call[c].todo) \in call[c].listed
                                         THEN call[c].found \o Parsed(Head(call[c].todo))
                                         ELSE call[c].found
  BY <1>0, <1>6 DEF Calls, Keeps
<1> QED
  BY <1>1, <1>6, <1>7, <1>8, <1>9, <1>10, <1>11, <1>12, <1>13

LEMMA DiskStep ==
    ASSUME TypeOK, NEW d \in Dir, Edit(d) \/ Delete(d)
    PROVE  /\ DiskOK' /\ edits' = edits + 1
           /\ \A e \in Dir \ {d} : disk'[e] = disk[e]
           /\ disk'[d] = NoFile \/ disk'[d].edit = edits'
<1>1. /\ disk \in [Dir -> File \cup {NoFile}] /\ edits \in Nat /\ edits' = edits + 1
      /\ edits' \in 0..MaxEdits
  BY RosterAssumption DEF TypeOK, DiskOK, Edit, Delete
<1>2. CASE Edit(d)
  <2>1. PICK front \in Header, hidden \in BOOLEAN :
            /\ hidden => disk[d] # NoFile
            /\ disk' = [disk EXCEPT ![d] =
                  [front |-> front, edit |-> edits',
                   written |-> IF hidden THEN disk[d].written ELSE edits']]
    BY <1>2 DEF Edit
  <2> DEFINE w == IF hidden THEN disk[d].written ELSE edits'
             file == [front |-> front, edit |-> edits', written |-> w]
  <2>2. w \in 0..MaxEdits /\ w <= edits'
    BY <1>1, <2>1, FileFacts DEF TypeOK, DiskOK, Listed
  <2>3. disk' = [disk EXCEPT ![d] = file]
    BY <2>1
  <2> HIDE DEF w
  <2>4. file \in File /\ file.edit = edits' /\ file.written = w
    BY <1>1, <2>2 DEF File
  <2> HIDE DEF file
  <2>5. disk' \in [Dir -> File \cup {NoFile}] /\ disk'[d] = file
        /\ \A e \in Dir \ {d} : disk'[e] = disk[e]
    BY <1>1, <2>3, <2>4
  <2>6. \A e \in Dir : disk'[e] # NoFile => disk'[e].edit <= edits' /\ disk'[e].written <= edits'
    <3> SUFFICES ASSUME NEW e \in Dir, disk'[e] # NoFile
                 PROVE  disk'[e].edit <= edits' /\ disk'[e].written <= edits'
      OBVIOUS
    <3>1. CASE e = d
      BY <1>1, <2>2, <2>4, <2>5, <3>1
    <3>2. CASE e # d
      <4>1. disk[e] # NoFile /\ disk'[e] = disk[e]
        BY <2>5, <3>2
      <4>2. disk[e].edit \in Nat /\ disk[e].written \in Nat
        BY <4>1, FileFacts, RosterAssumption DEF TypeOK
      <4>3. disk[e].edit <= edits /\ disk[e].written <= edits
        BY <4>1 DEF TypeOK, DiskOK, Listed
      <4> QED
        BY <1>1, <4>1, <4>2, <4>3
    <3> QED
      BY <3>1, <3>2
  <2> QED
    BY <1>1, <2>4, <2>5, <2>6 DEF DiskOK, Listed
<1>3. CASE Delete(d)
  <2>1. disk' = [disk EXCEPT ![d] = NoFile]
    BY <1>3 DEF Delete
  <2>2. disk' \in [Dir -> File \cup {NoFile}] /\ disk'[d] = NoFile
        /\ \A e \in Dir \ {d} : disk'[e] = disk[e]
    BY <1>1, <2>1
  <2>3. \A e \in Dir : disk'[e] # NoFile => disk'[e].edit <= edits' /\ disk'[e].written <= edits'
    <3> SUFFICES ASSUME NEW e \in Dir, disk'[e] # NoFile
                 PROVE  disk'[e].edit <= edits' /\ disk'[e].written <= edits'
      OBVIOUS
    <3>1. disk[e] # NoFile /\ disk'[e] = disk[e]
      BY <2>2
    <3>2. disk[e].edit \in Nat /\ disk[e].written \in Nat
      BY <3>1, FileFacts, RosterAssumption DEF TypeOK
    <3>3. disk[e].edit <= edits /\ disk[e].written <= edits
      BY <3>1 DEF TypeOK, DiskOK, Listed
    <3> QED
      BY <1>1, <3>1, <3>2, <3>3
  <2> QED
    BY <1>1, <2>2, <2>3 DEF DiskOK, Listed
<1> QED
  BY <1>2, <1>3

LEMMA TypeStep == TypeOK /\ [Next]_vars => TypeOK'
<1> SUFFICES ASSUME TypeOK, [Next]_vars PROVE TypeOK'
  OBVIOUS
<1>0. DiskOK /\ CacheOK /\ CallOK /\ HistoryOK /\ edits \in Nat
  BY RosterAssumption DEF TypeOK, DiskOK
<1>1. ASSUME NEW c \in Call, Step(c) \/ Discover(c) \/ Refresh(c)
      PROVE  TypeOK'
  <2>1. disk' = disk /\ edits' = edits
    BY <1>1 DEF Step, Discover, Refresh, Begins, HashTree, Hit, Serve, ServesNone, Miss,
       ScanOne, StoreScan, StoreKey, Bind
  <2>2. DiskOK'
    BY <1>0, <2>1 DEF DiskOK, Listed
  <2>3. CallOK'
    BY <1>1, <2>1, CallStep, CallMoves
  <2>4. CacheOK'
    <3>1. CASE StoreScan(c)
      <4>1. cache' = Held(call[c].found) /\ cache_key' = cache_key /\ call[c].found \in Seq(Entries)
        BY <1>0, <3>1 DEF StoreScan, CallOK, Calls
      <4>2. Head(cache') = call[c].found
        BY <4>1 DEF Held
      <4> QED
        BY <1>0, <4>1, <4>2 DEF CacheOK
    <3>2. CASE StoreKey(c)
      <4>1. cache' = cache /\ cache_key' = call[c].key /\ call[c].key \in Keys
        BY <1>0, <3>2 DEF StoreKey, CallOK, Calls
      <4> QED
        BY <1>0, <4>1 DEF CacheOK
    <3>3. CASE Refresh(c)
      BY <1>0, <3>3, KeyFacts DEF Refresh, CacheOK
    <3>4. CASE ~(StoreScan(c) \/ StoreKey(c) \/ Refresh(c))
      <4>1. cache' = cache /\ cache_key' = cache_key
        BY <1>1, <3>4 DEF Step, Discover, HashTree, Hit, Serve, ServesNone, Miss, ScanOne, Bind
      <4> QED
        BY <1>0, <4>1 DEF CacheOK
    <3> QED
      BY <3>1, <3>2, <3>3, <3>4
  <2>5. HistoryOK'
    <3>1. blind' \in BOOLEAN /\ crowded' \in BOOLEAN
      BY <1>0, <1>1 DEF HistoryOK, Step, Discover, Refresh, Begins, HashTree, Hit, Serve, ServesNone,
         Miss, ScanOne, StoreScan, StoreKey, Bind, history
    <3>2. as_of' = as_of \/ as_of' = call[c].since
      BY <1>1 DEF Step, Discover, Refresh, Begins, HashTree, Hit, Serve, ServesNone,
         Miss, ScanOne, StoreScan, StoreKey, Bind, history
    <3>3. call[c].since \in 0..edits
      BY <1>0, RosterAssumption DEF CallOK, Calls
    <3> QED
      BY <1>0, <2>1, <3>1, <3>2, <3>3 DEF HistoryOK
  <2> QED
    BY <2>2, <2>3, <2>4, <2>5 DEF TypeOK
<1>2. ASSUME NEW d \in Dir, Edit(d) \/ Delete(d)
      PROVE  TypeOK'
  <2>1. DiskOK' /\ edits' = edits + 1
    BY <1>2, DiskStep
  <2>2. UNCHANGED <<cache, cache_key, call, crowded, as_of>>
    BY <1>2 DEF Edit, Delete
  <2>3. CacheOK'
    BY <1>0, <2>2 DEF CacheOK
  <2>4. CallOK'
    <3>1. \A c \in Call : call[c].since \in Nat
      BY <1>0, RosterAssumption DEF CallOK, Calls
    <3> QED
      BY <1>0, <2>1, <2>2, <3>1 DEF CallOK
  <2>5. blind' \in BOOLEAN
    BY <1>2 DEF Edit, Delete
  <2>6. HistoryOK'
    BY <1>0, <2>1, <2>2, <2>5 DEF HistoryOK
  <2> QED
    BY <2>1, <2>3, <2>4, <2>6 DEF TypeOK
<1>3. CASE ChangeDirectory \/ Done \/ UNCHANGED vars
  BY <1>0, <1>3 DEF ChangeDirectory, Done, vars, history, TypeOK, DiskOK, CacheOK, CallOK,
     HistoryOK, Listed
<1> QED
  BY <1>1, <1>2, <1>3 DEF Next

-----------------------------------------------------------------------------
(* Entries are stamped by the edit that wrote their file                   *)

\* While the file an entry was read from is the one that edit wrote, the entry
\* has the department of its frontmatter.  Edits are never used twice.
Stamped(e, files, last) ==
    /\ e.from \in Dir /\ e.edit \in Nat /\ e.edit <= last
    /\ files[e.from] # NoFile /\ files[e.from].edit = e.edit
          => e.skill = Entry(e.from, files[e.from]).skill

AllStamped(found, files, last) ==
    \A i \in DOMAIN found : Stamped(found[i], files, last)

StampInv ==
    /\ \A c \in Call : AllStamped(call[c].found, disk, edits)
    /\ cache # NoScan => AllStamped(Head(cache), disk, edits)
    /\ \A n \in DOMAIN registered : Local(n) => Stamped(registered[n], disk, edits)

LEMMA StampKept ==
    ASSUME TypeOK, NEW e, Stamped(e, disk, edits),
           \/ disk' = disk /\ edits' = edits
           \/ \E d \in Dir : Edit(d) \/ Delete(d)
    PROVE  Stamped(e, disk', edits')
<1>1. CASE disk' = disk /\ edits' = edits
  BY <1>1
<1>2. ASSUME NEW d \in Dir, Edit(d) \/ Delete(d)
      PROVE  Stamped(e, disk', edits')
  <2>1. /\ edits' = edits + 1 /\ \A g \in Dir \ {d} : disk'[g] = disk[g]
        /\ disk'[d] = NoFile \/ disk'[d].edit = edits'
        /\ edits \in Nat
    BY <1>2, DiskStep, RosterAssumption DEF TypeOK, DiskOK
  <2>2. e.from \in Dir /\ e.edit \in Nat /\ e.edit <= edits /\ e.edit # edits' /\ e.edit <= edits'
    BY <2>1 DEF Stamped
  <2>3. CASE e.from = d
    BY <2>1, <2>2, <2>3 DEF Stamped
  <2>4. CASE e.from # d
    BY <2>1, <2>2, <2>4 DEF Stamped
  <2> QED
    BY <2>3, <2>4
<1> QED
  BY <1>1, <1>2

LEMMA EntryStamped ==
    ASSUME DiskOK, NEW d \in Dir, disk[d] # NoFile
    PROVE  Stamped(Entry(d, disk[d]), disk, edits)
<1> DEFINE e == Entry(d, disk[d])
<1>1. e.from = d /\ e.edit = disk[d].edit
  BY EntryFacts
<1>2. disk[d].edit \in Nat /\ disk[d].edit <= edits
  BY FileFacts, RosterAssumption DEF DiskOK, Listed
<1> HIDE DEF e
<1>3. disk[e.from] # NoFile /\ disk[e.from].edit = e.edit => e.skill = Entry(e.from, disk[e.from]).skill
  BY <1>1 DEF e
<1> QED
  BY <1>1, <1>2, <1>3 DEF Stamped, e

LEMMA ScannedStamped ==
    ASSUME DiskOK
    PROVE  AllStamped(Scanned, disk, edits)
<1> SUFFICES ASSUME NEW i \in DOMAIN Scanned
             PROVE  Stamped(Scanned[i], disk, edits)
  BY DEF AllStamped
<1>1. Scanned[i] \in Range(Scanned)
  BY DEF Range
<1>2. PICK p \in 1..Len(Dirs) : Valid(p) /\ Scanned[i] = Found(p)
  BY <1>1, ScannedFacts
<1> QED
  BY <1>2, DirFacts, EntryStamped DEF Valid, Found

\* One more file is read.
LEMMA MoreStamped ==
    ASSUME DiskOK, NEW found \in Seq(Entries), NEW d \in Dir, AllStamped(found, disk, edits)
    PROVE  AllStamped(found \o Parsed(d), disk, edits)
<1>1. CASE disk[d] # NoFile /\ disk[d].front.valid
  <2> DEFINE e == Entry(d, disk[d])
             more == Append(found, e)
  <2>1. Parsed(d) = <<e>> /\ e \in Entries
    BY <1>1, ParsedFacts, EntryFacts
  <2>2. Stamped(e, disk, edits)
    BY <1>1, EntryStamped
  <2> HIDE DEF e
  <2>3. found \o Parsed(d) = more
    BY <2>1, AppendIsConcat
  <2>4. /\ DOMAIN more = 1..Len(found) + 1 /\ DOMAIN found = 1..Len(found) /\ Len(found) \in Nat
        /\ more[Len(found) + 1] = e /\ \A i \in 1..Len(found) : more[i] = found[i]
    BY <2>1, AppendProperties
  <2> HIDE DEF more
  <2>5. ASSUME NEW i \in DOMAIN more PROVE Stamped(more[i], disk, edits)
    <3>1. i \in 1..Len(found) \/ i = Len(found) + 1
      BY <2>4
    <3> QED
      BY <2>2, <2>4, <3>1 DEF AllStamped
  <2> QED
    BY <2>3, <2>5 DEF AllStamped
<1>2. CASE ~(disk[d] # NoFile /\ disk[d].front.valid)
  <2>1. Parsed(d) = <<>>
    BY <1>2, ParsedFacts
  <2> QED
    BY <2>1, ConcatEmptySeq
<1> QED
  BY <1>1, <1>2

\* The specs of a registry are its entries'.
LEMMA SpecFacts ==
    ASSUME NEW found \in Seq(Entries), NEW n \in DOMAIN Registry(found),
           Registry(found)[n].kind = "tool_loop"
    PROVE  \E i \in DOMAIN found :
               /\ Registry(found)[n].from = found[i].from
               /\ Registry(found)[n].edit = found[i].edit
               /\ Registry(found)[n].skill = found[i].skill
BY SpecOf DEF LocalSpec

LEMMA SpecsStamped ==
    ASSUME NEW found \in Seq(Entries), AllStamped(found, disk, edits), registered' = Registry(found)
    PROVE  \A n \in DOMAIN registered' :
               registered'[n].kind = "tool_loop" => Stamped(registered'[n], disk, edits)
<1> SUFFICES ASSUME NEW n \in DOMAIN Registry(found), Registry(found)[n].kind = "tool_loop"
             PROVE  Stamped(Registry(found)[n], disk, edits)
  OBVIOUS
<1> DEFINE spec == Registry(found)[n]
<1>1. PICK i \in DOMAIN found :
          spec.from = found[i].from /\ spec.edit = found[i].edit /\ spec.skill = found[i].skill
  BY SpecFacts
<1>2. Stamped(found[i], disk, edits)
  BY DEF AllStamped
<1> HIDE DEF spec
<1>3. Stamped(spec, disk, edits)
  BY <1>1, <1>2 DEF Stamped
<1> QED
  BY <1>3 DEF spec

LEMMA StampInit == Init => StampInv
<1> SUFFICES ASSUME Init PROVE StampInv
  OBVIOUS
<1>1. DiskOK
  BY TypeInit DEF TypeOK
<1>2. AllStamped(Scanned, disk, edits)
  BY <1>1, ScannedStamped
<1>3. Head(cache) = Scanned
  BY DEF Init, Held
<1>4. \A c \in Call : call[c].found = <<>>
  BY DEF Init, Idle
<1>5. ASSUME NEW n \in DOMAIN registered, registered[n].kind = "tool_loop"
      PROVE  Stamped(registered[n], disk, edits)
  <2>1. registered = Registry(Scanned) /\ Scanned \in Seq(Entries)
    BY <1>1, ScannedFacts DEF Init
  <2>2. PICK i \in DOMAIN Scanned :
            /\ registered[n].from = Scanned[i].from
            /\ registered[n].edit = Scanned[i].edit
            /\ registered[n].skill = Scanned[i].skill
    BY <1>5, <2>1, SpecFacts
  <2>3. Stamped(Scanned[i], disk, edits)
    BY <1>2 DEF AllStamped
  <2> QED
    BY <2>2, <2>3 DEF Stamped
<1> QED
  BY <1>2, <1>3, <1>4, <1>5 DEF StampInv, AllStamped, Local

LEMMA StampStep == TypeOK /\ StampInv /\ [Next]_vars => StampInv'
<1> SUFFICES ASSUME TypeOK, StampInv, [Next]_vars PROVE StampInv'
  OBVIOUS
<1>0. DiskOK /\ call \in [Call -> Calls] /\ CacheOK
  BY DEF TypeOK, CallOK
<1>1. ASSUME NEW c \in Call, Step(c) \/ Discover(c) \/ Refresh(c)
      PROVE  StampInv'
  <2>1. disk' = disk /\ edits' = edits
    BY <1>1 DEF Step, Discover, Refresh, Begins, HashTree, Hit, Serve, ServesNone, Miss,
       ScanOne, StoreScan, StoreKey, Bind
  <2>2. PICK r \in Calls : call' = [call EXCEPT ![c] = r]
    BY <1>1, CallStep
  <2>3. call'[c] = r /\ \A b \in Call \ {c} : call'[b] = call[b]
    BY <1>0, <2>2
  <2>4. AllStamped(call'[c].found, disk, edits)
    <3>1. CASE ScanOne(c)
      <4> DEFINE d == Head(call[c].todo)
      <4>1. d \in Dir /\ call[c].found \in Seq(Entries)
        BY <1>0, <3>1 DEF ScanOne, Calls
      <4>2. call'[c].found = call[c].found \/ call'[c].found = call[c].found \o Parsed(d)
        BY <1>0, <3>1 DEF ScanOne, Calls
      <4>3. AllStamped(call[c].found, disk, edits)
        BY DEF StampInv
      <4> QED
        BY <1>0, <4>1, <4>2, <4>3, MoreStamped
    <3>2. CASE Serve(c)
      <4>1. call'[c].found = Head(cache) /\ cache # NoScan
        BY <1>0, <3>2 DEF Serve, Calls
      <4> QED
        BY <4>1 DEF StampInv
    <3>3. CASE ~(ScanOne(c) \/ Serve(c))
      <4>1. CASE HashTree(c) \/ Hit(c) \/ Miss(c) \/ StoreScan(c) \/ StoreKey(c)
        <5>1. call'[c].found = call[c].found
          BY <4>1, CallFields
        <5> QED
          BY <5>1 DEF StampInv
      <4>2. CASE Discover(c) \/ Refresh(c) \/ ServesNone(c) \/ Bind(c)
        <5>1. call'[c].found = <<>>
          <6>1. Idle.found = <<>>
            BY DEF Idle
          <6> QED
            BY <4>2, <6>1, CallFields
        <5> QED
          BY <5>1 DEF AllStamped
      <4> QED
        BY <1>1, <3>3, <4>1, <4>2 DEF Step
    <3> QED
      BY <3>1, <3>2, <3>3
  <2>5. \A b \in Call : AllStamped(call'[b].found, disk', edits')
    BY <2>1, <2>3, <2>4 DEF StampInv
  <2>6. cache' # NoScan => AllStamped(Head(cache'), disk', edits')
    <3>1. CASE cache' = Held(call[c].found)
      BY <2>1, <3>1 DEF Held, StampInv
    <3>2. CASE cache' = cache \/ cache' = NoScan
      BY <2>1, <3>2 DEF StampInv
    <3> QED
      BY <1>1, <3>1, <3>2 DEF Step, Discover, Refresh, Begins, HashTree, Hit, Serve, ServesNone, Miss,
         ScanOne, StoreScan, StoreKey, Bind
  <2>7. \A n \in DOMAIN registered' :
            registered'[n].kind = "tool_loop" => Stamped(registered'[n], disk', edits')
    <3>1. CASE registered' = registered
      BY <2>1, <3>1 DEF StampInv, Local
    <3>2. CASE registered' = Registry(call[c].found)
      <4>1. call[c].found \in Seq(Entries) /\ AllStamped(call[c].found, disk, edits)
        BY <1>0 DEF Calls, StampInv
      <4> QED
        BY <2>1, <3>2, <4>1, SpecsStamped
    <3> QED
      BY <1>1, <3>1, <3>2 DEF Step, Discover, Refresh, Begins, HashTree, Hit, Serve, ServesNone, Miss,
         ScanOne, StoreScan, StoreKey, Bind
  <2> QED
    BY <2>5, <2>6, <2>7 DEF StampInv, Local
<1>2. CASE \/ \E d \in Dir : Edit(d) \/ Delete(d)
           \/ ChangeDirectory \/ Done \/ UNCHANGED vars
  <2>1. UNCHANGED <<call, cache, registered>>
    BY <1>2 DEF Edit, Delete, ChangeDirectory, Done, vars
  <2>2. \/ disk' = disk /\ edits' = edits
        \/ \E d \in Dir : Edit(d) \/ Delete(d)
    BY <1>2 DEF ChangeDirectory, Done, vars
  <2>3. \A e : Stamped(e, disk, edits) => Stamped(e, disk', edits')
    BY <2>2, StampKept
  <2> QED
    BY <2>1, <2>3 DEF StampInv, AllStamped, Local
<1> QED
  BY <1>1, <1>2 DEF Next

\* Every reachable state has its types and its stamps.
THEOREM RosterTypes == Spec => [](TypeOK /\ StampInv)
<1>1. Init => TypeOK /\ StampInv
  BY TypeInit, StampInit
<1>2. TypeOK /\ StampInv /\ [Next]_vars => (TypeOK /\ StampInv)'
  BY TypeStep, StampStep
<1> QED
  BY <1>1, <1>2, PTL DEF Spec

\* A department runs with the prompt of the file that declares it, as long as that
\* file stands and names no other directory, however calls overlap: or with none,
\* if the file leads out of skills/, or with what lies at the same name where the
\* process has changed its directory to
\* (subagents.py:94-101, discovery.py:186-201, memory.py:34-51).
THEOREM PromptsAreOwn == Spec => []OwnPrompt
<1>1. ASSUME TypeOK, StampInv PROVE OwnPrompt
  <2> SUFFICES ASSUME NEW n \in DOMAIN registered, Local(n),
                      disk[registered[n].from] # NoFile,
                      disk[registered[n].from].edit = registered[n].edit,
                      disk[registered[n].from].front.department \in {Blank, registered[n].from}
               PROVE  /\ cwd = "repository" /\ registered[n].from \notin Barred
                             => PromptFile(n) = disk[registered[n].from]
                      /\ PromptFile(n) \in {disk[registered[n].from], NoFile,
                                            Foreign(registered[n].from)}
    BY DEF OwnPrompt
  <2>1. registered[n].skill = Entry(registered[n].from, disk[registered[n].from]).skill
    BY <1>1 DEF StampInv, Stamped
  <2>2. registered[n].skill = registered[n].from
    BY <2>1 DEF Entry
  <2>3. PromptFile(n) =
            IF cwd = "elsewhere"
            THEN IF registered[n].from \in Elsewhere THEN Foreign(registered[n].from) ELSE NoFile
            ELSE IF registered[n].from \in Barred THEN NoFile ELSE disk[registered[n].from]
    BY <2>2 DEF PromptFile
  <2> QED
    BY <2>3
<1> QED
  BY <1>1, RosterTypes, PTL

-----------------------------------------------------------------------------
(* One call at a time                                                      *)

\* An entry no older than t: its file was read after edit t.
Recent(e, t, files) ==
    files[e.from] # NoFile /\ files[e.from].edit <= t => e.edit = files[e.from].edit
AllRecent(found, t, files) == \A i \in DOMAIN found : Recent(found[i], t, files)

\* A key of the tree as it was: it shows no later edit than the last, and every
\* file that has been there from the start.
Seen(key, files, last) ==
    /\ \A d \in DOMAIN key : key[d] \in Nat /\ key[d] <= last
    /\ \A d \in Dir : files[d] # NoFile /\ files[d].edit = 0 => d \in DOMAIN key

\* Nothing was edited since the call began, or since it hashed the tree.
Still(c) == call[c].since = edits \/ (~blind /\ call[c].key = TreeKey)

Storing == \E c \in Call : call[c].pc = "store key"

\* What a call knows, by where it is.  A scan of a tree that stands still finds
\* what there is; a refresh drops the cache and finds nothing that is older.
CallInv(c) ==
    /\ call[c].pc = "idle" => call[c].refresh = FALSE
    /\ call[c].pc \in {"key", "check"} => call[c].found = <<>>
    /\ call[c].pc \notin {"idle", "key"} => Seen(call[c].key, disk, edits)
    /\ call[c].refresh = TRUE =>
           /\ call[c].pc # "serve"
           /\ call[c].pc \in {"key", "check"} => cache = NoScan
           /\ AllRecent(call[c].found, call[c].since, disk)
    /\ call[c].pc = "scan" =>
           \E k \in 0..Len(Dirs) :
               /\ call[c].todo = SubSeq(Dirs, k + 1, Len(Dirs))
               /\ Still(c) => call[c].listed = Listed /\ call[c].found = Prefix(k)
    /\ call[c].pc = "store key" =>
           /\ cache = Held(call[c].found)
           /\ Still(c) => call[c].found = Scanned
    /\ call[c].pc = "found" /\ call[c].refresh = TRUE /\ call[c].since = edits
           => call[c].found = Scanned

\* The cached scan that a new key would be compared with.
CacheInv ==
    cache # NoScan /\ ~Storing =>
        /\ Seen(cache_key, disk, edits)
        /\ ~blind /\ cache_key = TreeKey => cache = Held(Scanned)

\* What the last refresh bound.
BoundInv ==
    /\ edits = as_of => registered = Registry(Scanned)
    /\ \A n \in DOMAIN registered :
           registered[n].kind = "tool_loop" => Recent(registered[n], as_of, disk)

FreshInv ==
    ~crowded =>
        /\ \A b, c \in Call : call[b].pc # "idle" /\ call[c].pc # "idle" => b = c
        /\ \A c \in Call : CallInv(c)
        /\ CacheInv /\ BoundInv

RosterInv == TypeOK /\ StampInv /\ FreshInv

LEMMA EntryRecent ==
    ASSUME DiskOK, NEW d \in Dir, disk[d] # NoFile, NEW t
    PROVE  Recent(Entry(d, disk[d]), t, disk)
BY EntryFacts DEF Recent

LEMMA ScannedRecent ==
    ASSUME DiskOK, NEW t
    PROVE  AllRecent(Scanned, t, disk)
<1> SUFFICES ASSUME NEW i \in DOMAIN Scanned
             PROVE  Recent(Scanned[i], t, disk)
  BY DEF AllRecent
<1>1. Scanned[i] \in Range(Scanned)
  BY DEF Range
<1>2. PICK p \in 1..Len(Dirs) : Valid(p) /\ Scanned[i] = Found(p)
  BY <1>1, ScannedFacts
<1> QED
  BY <1>2, DirFacts, EntryRecent DEF Valid, Found

LEMMA MoreRecent ==
    ASSUME DiskOK, NEW found \in Seq(Entries), NEW d \in Dir, NEW t, AllRecent(found, t, disk)
    PROVE  AllRecent(found \o Parsed(d), t, disk)
<1>1. CASE disk[d] # NoFile /\ disk[d].front.valid
  <2> DEFINE e == Entry(d, disk[d])
             more == Append(found, e)
  <2>1. Parsed(d) = <<e>> /\ e \in Entries
    BY <1>1, ParsedFacts, EntryFacts
  <2>2. Recent(e, t, disk)
    BY <1>1, EntryRecent
  <2> HIDE DEF e
  <2>3. found \o Parsed(d) = more
    BY <2>1, AppendIsConcat
  <2>4. /\ DOMAIN more = 1..Len(found) + 1 /\ DOMAIN found = 1..Len(found) /\ Len(found) \in Nat
        /\ more[Len(found) + 1] = e /\ \A i \in 1..Len(found) : more[i] = found[i]
    BY <2>1, AppendProperties
  <2> HIDE DEF more
  <2>5. ASSUME NEW i \in DOMAIN more PROVE Recent(more[i], t, disk)
    <3>1. i \in 1..Len(found) \/ i = Len(found) + 1
      BY <2>4
    <3> QED
      BY <2>2, <2>4, <3>1 DEF AllRecent
  <2> QED
    BY <2>3, <2>5 DEF AllRecent
<1>2. CASE ~(disk[d] # NoFile /\ disk[d].front.valid)
  <2>1. Parsed(d) = <<>>
    BY <1>2, ParsedFacts
  <2> QED
    BY <2>1, ConcatEmptySeq
<1> QED
  BY <1>1, <1>2

LEMMA SpecsRecent ==
    ASSUME NEW found \in Seq(Entries), NEW t, AllRecent(found, t, disk),
           NEW n \in DOMAIN Registry(found), Registry(found)[n].kind = "tool_loop"
    PROVE  Recent(Registry(found)[n], t, disk)
<1> DEFINE spec == Registry(found)[n]
<1>1. PICK i \in DOMAIN found :
          spec.from = found[i].from /\ spec.edit = found[i].edit
  BY SpecFacts
<1>2. Recent(found[i], t, disk)
  BY DEF AllRecent
<1> HIDE DEF spec
<1>3. Recent(spec, t, disk)
  BY <1>1, <1>2 DEF Recent
<1> QED
  BY <1>3 DEF spec

LEMMA FreshInit == Init => FreshInv
<1> SUFFICES ASSUME Init PROVE FreshInv
  OBVIOUS
<1>1. DiskOK /\ call \in [Call -> Calls]
  BY TypeInit DEF TypeOK, CallOK
<1>2. \A c \in Call : call[c].pc = "idle" /\ call[c].refresh = FALSE
  BY DEF Init, Idle
<1>3. \A c \in Call : CallInv(c)
  BY <1>2 DEF CallInv
<1>4. Seen(TreeKey, disk, edits)
  <2>1. \A d \in Listed : disk[d].written \in Nat /\ disk[d].written <= edits
    BY <1>1, FileFacts, RosterAssumption DEF DiskOK, Listed
  <2> QED
    BY <1>1, <2>1, KeyFacts DEF Seen, Listed
<1>5. CacheInv
  BY <1>4 DEF Init, CacheInv
<1>6. BoundInv
  <2>1. registered = Registry(Scanned) /\ Scanned \in Seq(Entries)
    BY <1>1, ScannedFacts DEF Init
  <2> QED
    BY <1>1, <2>1, ScannedRecent, SpecsRecent DEF BoundInv
<1> QED
  BY <1>2, <1>3, <1>5, <1>6 DEF FreshInv

-----------------------------------------------------------------------------
(* Edits                                                                   *)

\* An edit that is not blind shows in every key of the tree as it was.
LEMMA EditShows ==
    ASSUME TypeOK, NEW d \in Dir, Edit(d) \/ Delete(d), NEW key, Seen(key, disk, edits)
    PROVE  Seen(key, disk', edits') /\ (blind' = FALSE => key # TreeKey')
<1>1. /\ DiskOK /\ DiskOK' /\ edits' = edits + 1 /\ edits \in Nat
      /\ \A g \in Dir \ {d} : disk'[g] = disk[g]
      /\ disk'[d] = NoFile \/ disk'[d].edit = edits'
  BY DiskStep, RosterAssumption DEF TypeOK, DiskOK
<1>2. Seen(key, disk', edits')
  <2>1. ASSUME NEW g \in DOMAIN key PROVE key[g] \in Nat /\ key[g] <= edits'
    BY <1>1 DEF Seen
  <2>2. ASSUME NEW g \in Dir, disk'[g] # NoFile, disk'[g].edit = 0 PROVE g \in DOMAIN key
    <3>1. g # d
      BY <1>1, <2>2
    <3> QED
      BY <1>1, <2>2, <3>1 DEF Seen
  <2> QED
    BY <2>1, <2>2 DEF Seen
<1>3. DOMAIN TreeKey' = Listed' /\ \A g \in Listed' : TreeKey'[g] = disk'[g].written
  BY DEF TreeKey, Listed
<1>4. CASE Edit(d) /\ blind' = FALSE
  <2>1. PICK front \in Header, hidden \in BOOLEAN :
            /\ disk' = [disk EXCEPT ![d] =
                  [front |-> front, edit |-> edits',
                   written |-> IF hidden THEN disk[d].written ELSE edits']]
            /\ blind' = (blind \/ hidden)
    BY <1>4 DEF Edit
  <2>2. hidden = FALSE
    BY <1>4, <2>1
  <2> DEFINE file == [front |-> front, edit |-> edits', written |-> edits']
  <2>3. disk' = [disk EXCEPT ![d] = file]
    BY <2>1, <2>2
  <2>4. file.written = edits' /\ file \in File
    BY <1>1 DEF File, DiskOK
  <2> HIDE DEF file
  <2>5. disk'[d] = file
    BY <1>1, <2>3 DEF DiskOK
  <2>6. d \in Listed' /\ TreeKey'[d] = edits'
    BY <1>3, <2>4, <2>5, FileIsThere DEF Listed
  <2>7. d \in DOMAIN key => key[d] # edits'
    BY <1>1 DEF Seen
  <2> QED
    BY <1>2, <1>3, <2>6, <2>7
<1>5. CASE Delete(d) /\ blind' = FALSE
  <2>1. disk[d] # NoFile /\ disk' = [disk EXCEPT ![d] = NoFile] /\ blind' = (blind \/ disk[d].edit > 0)
    BY <1>5 DEF Delete
  <2>2. disk[d].edit \in Nat
    BY <1>1, <2>1, FileFacts, RosterAssumption
  <2>3. ~(disk[d].edit > 0)
    BY <1>5, <2>1
  <2>4. d \in DOMAIN key
    BY <2>1, <2>2, <2>3 DEF Seen
  <2>5. disk'[d] = NoFile
    BY <1>1, <2>1 DEF DiskOK
  <2>6. d \notin DOMAIN TreeKey'
    BY <1>3, <2>5 DEF Listed
  <2> QED
    BY <1>2, <2>4, <2>6
<1> QED
  BY <1>2, <1>4, <1>5

LEMMA RecentKept ==
    ASSUME TypeOK, NEW d \in Dir, Edit(d) \/ Delete(d), NEW e, e.from \in Dir,
           NEW t \in Nat, t <= edits, Recent(e, t, disk)
    PROVE  Recent(e, t, disk')
<1>1. /\ edits' = edits + 1 /\ edits \in Nat
      /\ \A g \in Dir \ {d} : disk'[g] = disk[g]
      /\ disk'[d] = NoFile \/ disk'[d].edit = edits'
  BY DiskStep, RosterAssumption DEF TypeOK, DiskOK
<1>2. CASE e.from = d
  BY <1>1, <1>2 DEF Recent
<1>3. CASE e.from # d
  BY <1>1, <1>3 DEF Recent
<1> QED
  BY <1>2, <1>3

LEMMA EditFresh ==
    ASSUME RosterInv, NEW d \in Dir, Edit(d) \/ Delete(d)
    PROVE  FreshInv'
<1>1. /\ UNCHANGED <<call, cache, cache_key, registered, as_of, crowded>>
      /\ edits' = edits + 1 /\ edits \in Nat
      /\ TypeOK /\ StampInv /\ FreshInv /\ call \in [Call -> Calls]
  BY DiskStep, RosterAssumption DEF RosterInv, TypeOK, DiskOK, CallOK, Edit, Delete
<1>2. SUFFICES ASSUME ~crowded PROVE FreshInv'
  BY <1>1 DEF FreshInv
<1>3. /\ \A c \in Call : CallInv(c)
      /\ \A b, c \in Call : call[b].pc # "idle" /\ call[c].pc # "idle" => b = c
      /\ CacheInv /\ BoundInv
  BY <1>1, <1>2 DEF FreshInv
<1>4. \A key : Seen(key, disk, edits)
               => Seen(key, disk', edits') /\ (blind' = FALSE => key # TreeKey')
  BY <1>1, EditShows
<1>5. blind' \in BOOLEAN
  BY <1>1, TypeStep DEF Next, TypeOK, HistoryOK
<1>6. \A c \in Call : call[c].since \in Nat /\ call[c].since <= edits
  BY <1>1, RosterAssumption DEF TypeOK, CallOK, Calls
<1>7. ASSUME NEW c \in Call PROVE CallInv(c)'
  <2>1. CallInv(c)
    BY <1>3
  <2>2. Seen(call[c].key, disk, edits) => Still(c)' = FALSE
    <3>1. call[c].since # edits'
      BY <1>1, <1>6
    <3> QED
      BY <1>1, <1>4, <1>5, <3>1 DEF Still
  <2>3. AllRecent(call[c].found, call[c].since, disk) => AllRecent(call[c].found, call[c].since, disk')
    <3>1. SUFFICES ASSUME AllRecent(call[c].found, call[c].since, disk), NEW i \in DOMAIN call[c].found
                   PROVE  Recent(call[c].found[i], call[c].since, disk')
      BY DEF AllRecent
    <3>2. call[c].found[i].from \in Dir
      BY <1>1 DEF StampInv, AllStamped, Stamped
    <3>3. Recent(call[c].found[i], call[c].since, disk)
      BY <3>1 DEF AllRecent
    <3> QED
      BY <1>1, <1>6, <3>2, <3>3, RecentKept
  <2>4. Seen(call[c].key, disk, edits) => Seen(call[c].key, disk', edits')
    BY <1>4
  <2>5. call[c].since # edits'
    BY <1>1, <1>6
  <2> HIDE DEF Still
  <2>6. call[c].pc \in {"scan", "store key"} => Seen(call[c].key, disk, edits)
    BY <2>1 DEF CallInv
  <2>7. call'[c].pc = "scan" =>
           \E k \in 0..Len(Dirs) :
               /\ call'[c].todo = SubSeq(Dirs, k + 1, Len(Dirs))
               /\ Still(c)' => call'[c].listed = Listed' /\ call'[c].found = Prefix(k)'
    BY <1>1, <2>1, <2>2, <2>6 DEF CallInv
  <2>8. call'[c].pc = "store key" =>
           /\ cache' = Held(call'[c].found)
           /\ Still(c)' => call'[c].found = Scanned'
    BY <1>1, <2>1, <2>2, <2>6 DEF CallInv
  <2> QED
    BY <1>1, <2>1, <2>3, <2>4, <2>5, <2>7, <2>8 DEF CallInv
<1>8. CacheInv'
  BY <1>1, <1>3, <1>4, <1>5 DEF CacheInv, Storing
<1>9. BoundInv'
  <2>1. edits' # as_of /\ as_of \in Nat /\ as_of <= edits
    BY <1>1 DEF TypeOK, HistoryOK
  <2>2. ASSUME NEW n \in DOMAIN registered, registered[n].kind = "tool_loop"
        PROVE  Recent(registered[n], as_of, disk')
    <3>1. registered[n].from \in Dir
      BY <1>1, <2>2 DEF StampInv, Local, Stamped
    <3>2. Recent(registered[n], as_of, disk)
      BY <1>3, <2>2 DEF BoundInv
    <3> QED
      BY <1>1, <2>1, <3>1, <3>2, RecentKept
  <2> QED
    BY <1>1, <2>1, <2>2 DEF BoundInv
<1> QED
  BY <1>1, <1>3, <1>7, <1>8, <1>9 DEF FreshInv

-----------------------------------------------------------------------------
(* Steps of a call                                                         *)

LEMMA ThreadFrame ==
    ASSUME NEW c \in Call, Step(c) \/ Discover(c) \/ Refresh(c)
    PROVE  /\ disk' = disk /\ edits' = edits
           /\ Scanned' = Scanned /\ TreeKey' = TreeKey /\ Listed' = Listed
           /\ \A k : Prefix(k)' = Prefix(k)
<1>1. disk' = disk /\ edits' = edits
  BY DEF Step, Discover, Refresh, Begins, HashTree, Hit, Serve, ServesNone, Miss,
     ScanOne, StoreScan, StoreKey, Bind
<1>2. Scanned' = Scanned
  BY <1>1 DEF Scanned, Parsed
<1>3. TreeKey' = TreeKey /\ Listed' = Listed
  BY <1>1 DEF TreeKey, Listed
<1>4. \A k : Prefix(k)' = Prefix(k)
  BY <1>1 DEF Prefix, Pieces, Parsed
<1> QED
  BY <1>1, <1>2, <1>3, <1>4

\* While calls do not overlap, only the one that steps is under way.
LEMMA ThreadAlone ==
    ASSUME RosterInv, NEW c \in Call, Step(c) \/ Discover(c) \/ Refresh(c), ~crowded'
    PROVE  /\ ~crowded /\ CallInv(c) /\ CacheInv /\ BoundInv
           /\ \A b \in Call \ {c} : call[b].pc = "idle" /\ call'[b] = call[b] /\ CallInv(b)
           /\ Storing <=> call[c].pc = "store key"
           /\ Storing' <=> call'[c].pc = "store key"
<1>0. TypeOK /\ FreshInv /\ call \in [Call -> Calls]
  BY DEF RosterInv, TypeOK, CallOK
<1>1. PICK r \in Calls : call' = [call EXCEPT ![c] = r]
  BY <1>0, CallStep
<1>2. \A b \in Call \ {c} : call'[b] = call[b]
  BY <1>0, <1>1
<1>3. ~crowded /\ \A b \in Call \ {c} : call[b].pc = "idle"
  <2>1. CASE Discover(c) \/ Refresh(c)
    <3>1. crowded' = (crowded \/ \E b \in Call : call[b].pc # "idle")
      BY <2>1 DEF Discover, Refresh, Begins
    <3> QED
      BY <3>1
  <2>2. CASE Step(c)
    <3>1. crowded' = crowded /\ call[c].pc # "idle"
      BY <2>2 DEF Step, HashTree, Hit, Serve, ServesNone, Miss, ScanOne, StoreScan, StoreKey,
         Bind, history
    <3> QED
      BY <1>0, <3>1 DEF FreshInv
  <2> QED
    BY <2>1, <2>2
<1>4. CacheInv /\ BoundInv /\ \A b \in Call : CallInv(b)
  BY <1>0, <1>3 DEF FreshInv
<1>5. (Storing <=> call[c].pc = "store key") /\ (Storing' <=> call'[c].pc = "store key")
  BY <1>2, <1>3 DEF Storing
<1> QED
  BY <1>2, <1>3, <1>4, <1>5

\* Hashing, and what a scan stands on.
LEMMA TreeSeen ==
    ASSUME DiskOK
    PROVE  Seen(TreeKey, disk, edits)
<1>1. \A d \in Listed : disk[d].written \in Nat /\ disk[d].written <= edits
  BY FileFacts, RosterAssumption DEF DiskOK, Listed
<1> QED
  BY <1>1, KeyFacts DEF Seen, Listed

\* What is left to scan, one directory further on.
LEMMA Further ==
    ASSUME NEW k \in 0..Len(Dirs), SubSeq(Dirs, k + 1, Len(Dirs)) # <<>>
    PROVE  /\ k < Len(Dirs) /\ k + 1 \in 0..Len(Dirs)
           /\ Head(SubSeq(Dirs, k + 1, Len(Dirs))) = Dirs[k + 1]
           /\ Tail(SubSeq(Dirs, k + 1, Len(Dirs))) = SubSeq(Dirs, k + 2, Len(Dirs))
<1>1. Dirs \in Seq(Dir) /\ Len(Dirs) \in Nat /\ k \in Nat /\ k <= Len(Dirs)
  BY DirFacts, RosterAssumption
<1>2. k < Len(Dirs)
  BY <1>1
<1>3. Head(SubSeq(Dirs, k + 1, Len(Dirs))) = Dirs[k + 1]
  BY <1>1, <1>2
<1>4. Tail(SubSeq(Dirs, k + 1, Len(Dirs))) = SubSeq(Dirs, k + 2, Len(Dirs))
  BY <1>1, <1>2
<1> QED
  BY <1>1, <1>2, <1>3, <1>4

LEMMA WholeTodo == SubSeq(Dirs, 1, Len(Dirs)) = Dirs
BY DirFacts, RosterAssumption

\* What a call knows after its step.
LEMMA ThreadCall ==
    ASSUME RosterInv, NEW c \in Call, Step(c) \/ Discover(c) \/ Refresh(c), ~crowded'
    PROVE  CallInv(c)'
<1> DEFINE old == call[c]
           new == call'[c]
<1>0. /\ TypeOK /\ DiskOK /\ CallInv(c) /\ CacheInv /\ old \in Calls
      /\ Storing <=> old.pc = "store key"
      /\ disk' = disk /\ edits' = edits /\ Scanned' = Scanned /\ TreeKey' = TreeKey
      /\ Listed' = Listed /\ \A k : Prefix(k)' = Prefix(k)
  BY ThreadAlone, ThreadFrame DEF RosterInv, TypeOK, CallOK
<1>1. ~Refresh(c) => blind' = blind
  BY DEF Step, Discover, HashTree, Hit, Serve, ServesNone, Miss, ScanOne, StoreScan, StoreKey,
     Bind, history
<1>2. ASSUME Discover(c) \/ Refresh(c) PROVE CallInv(c)'
  <2>1. new.pc = "key" /\ new.found = <<>> /\ (new.refresh = TRUE => cache' = NoScan)
    BY <1>0, <1>2, CallFields DEF Discover, Refresh
  <2>2. AllRecent(<<>>, new.since, disk)
    BY DEF AllRecent
  <2> QED
    BY <1>0, <2>1, <2>2 DEF CallInv
<1>3. CASE HashTree(c)
  <2>1. /\ old.pc = "key" /\ new.pc = "check" /\ new.key = TreeKey /\ cache' = cache
        /\ new.refresh = old.refresh /\ new.since = old.since /\ new.found = old.found
    BY <1>0, <1>3, CallFields DEF HashTree, Keeps
  <2>2. Seen(TreeKey, disk, edits)
    BY <1>0, TreeSeen
  <2> QED
    BY <1>0, <2>1, <2>2 DEF CallInv
<1>4. CASE Hit(c)
  <2>1. /\ old.pc = "check" /\ new.pc = "serve" /\ new.key = old.key /\ cache # NoScan
        /\ new.refresh = old.refresh /\ new.since = old.since /\ new.found = old.found
    BY <1>0, <1>4, CallFields DEF Hit, Keeps
  <2> QED
    BY <1>0, <2>1 DEF CallInv
<1>5. CASE Serve(c)
  <2>1. /\ old.pc = "serve" /\ new.pc = "found" /\ new.key = old.key
        /\ new.refresh = old.refresh
    BY <1>0, <1>5, CallFields DEF Keeps
  <2>2. new.refresh # TRUE
    BY <1>0, <2>1 DEF CallInv
  <2> QED
    BY <1>0, <2>1, <2>2 DEF CallInv
<1>6. CASE ServesNone(c) \/ Bind(c)
  <2>1. new = Idle
    BY <1>0, <1>6, CallFields
  <2>2. new.pc = "idle" /\ new.refresh = FALSE
    BY <2>1 DEF Idle
  <2> QED
    BY <2>2 DEF CallInv
<1>7. CASE Miss(c)
  <2>1. /\ old.pc = "check" /\ new.pc = "scan" /\ new.key = old.key
        /\ new.refresh = old.refresh /\ new.since = old.since /\ new.found = old.found
        /\ new.listed = Listed /\ new.todo = Dirs
    BY <1>0, <1>7, CallFields DEF Keeps
  <2>2. new.found = <<>> /\ Seen(new.key, disk, edits)
    BY <1>0, <2>1 DEF CallInv
  <2>3. 0 \in 0..Len(Dirs) /\ new.todo = SubSeq(Dirs, 0 + 1, Len(Dirs)) /\ new.found = Prefix(0)
    BY <2>1, <2>2, DirFacts, WholeTodo, PrefixZero
  <2>4. AllRecent(new.found, new.since, disk)
    BY <2>2 DEF AllRecent
  <2> HIDE DEF Still
  <2>5. \E k \in 0..Len(Dirs) :
            /\ new.todo = SubSeq(Dirs, k + 1, Len(Dirs))
            /\ Still(c)' => new.listed = Listed' /\ new.found = Prefix(k)'
    BY <1>0, <2>1, <2>3
  <2> QED
    BY <1>0, <2>1, <2>2, <2>4, <2>5 DEF CallInv
<1>8. CASE ScanOne(c)
  <2>1. /\ old.pc = "scan" /\ new.pc = "scan" /\ new.key = old.key
        /\ new.refresh = old.refresh /\ new.since = old.since /\ new.listed = old.listed
        /\ old.todo # <<>> /\ new.todo = Tail(old.todo)
        /\ new.found = IF Head(old.todo) \in old.listed
                       THEN old.found \o Parsed(Head(old.todo)) ELSE old.found
    BY <1>0, <1>8, CallFields DEF Keeps
  <2>2. Seen(new.key, disk, edits)
    BY <1>0, <2>1 DEF CallInv
  <2>3. PICK k \in 0..Len(Dirs) :
            /\ old.todo = SubSeq(Dirs, k + 1, Len(Dirs))
            /\ Still(c) => old.listed = Listed /\ old.found = Prefix(k)
    BY <1>0, <2>1 DEF CallInv
  <2>4. /\ k < Len(Dirs) /\ k + 1 \in 0..Len(Dirs) /\ k + 1 \in 1..Len(Dirs)
        /\ Head(old.todo) = Dirs[k + 1] /\ new.todo = SubSeq(Dirs, (k + 1) + 1, Len(Dirs))
    <3>1. k \in Nat /\ Len(Dirs) \in Nat
      BY DirFacts
    <3>2. /\ k < Len(Dirs) /\ k + 1 \in 0..Len(Dirs)
          /\ Head(old.todo) = Dirs[k + 1] /\ new.todo = SubSeq(Dirs, k + 2, Len(Dirs))
      BY <2>1, <2>3, Further
    <3>3. (k + 1) + 1 = k + 2 /\ k + 1 \in 1..Len(Dirs)
      BY <3>1, <3>2
    <3> QED
      BY <3>2, <3>3
  <2> DEFINE d == Dirs[k + 1]
  <2>5. d \in Dir
    BY <2>4, DirFacts
  <2>6. Still(c)' = Still(c)
    BY <1>0, <1>1, <1>8, <2>1 DEF Still, ScanOne, history
  <2>7. Still(c) => new.found = Prefix(k + 1) /\ new.listed = Listed
    <3> SUFFICES ASSUME Still(c) PROVE new.found = Prefix(k + 1) /\ new.listed = Listed
      OBVIOUS
    <3>1. old.listed = Listed /\ old.found = Prefix(k)
      BY <2>3
    <3>2. Prefix(k + 1) = Prefix(k) \o Parsed(d)
      BY <1>0, <2>4, PrefixNext
    <3>3. CASE d \in Listed
      BY <2>1, <2>4, <3>1, <3>2, <3>3
    <3>4. CASE d \notin Listed
      <4>1. Parsed(d) = <<>> /\ Prefix(k) \in Seq(Entries)
        BY <1>0, <2>5, <3>4, ParsedFacts, PrefixFacts DEF Listed
      <4>2. Prefix(k) \o Parsed(d) = Prefix(k)
        BY <4>1, ConcatEmptySeq
      <4> QED
        BY <2>1, <2>4, <3>1, <3>2, <3>4, <4>2
    <3> QED
      BY <3>3, <3>4
  <2>8. new.refresh = TRUE => AllRecent(new.found, new.since, disk)
    <3> SUFFICES ASSUME new.refresh = TRUE PROVE AllRecent(new.found, new.since, disk)
      OBVIOUS
    <3>1. AllRecent(old.found, old.since, disk) /\ old.found \in Seq(Entries)
      BY <1>0, <2>1 DEF CallInv, Calls
    <3>2. AllRecent(old.found \o Parsed(d), old.since, disk)
      BY <1>0, <2>5, <3>1, MoreRecent
    <3> QED
      BY <2>1, <2>4, <3>1, <3>2
  <2>9. \E j \in 0..Len(Dirs) :
            /\ new.todo = SubSeq(Dirs, j + 1, Len(Dirs))
            /\ Still(c)' => new.listed = Listed' /\ new.found = Prefix(j)'
    <3>1. Still(c)' => new.listed = Listed' /\ new.found = Prefix(k + 1)'
      BY <1>0, <2>6, <2>7
    <3> QED
      BY <2>4, <3>1
  <2> QED
    BY <1>0, <2>1, <2>2, <2>8, <2>9 DEF CallInv
<1>9. CASE StoreScan(c)
  <2>1. /\ old.pc = "scan" /\ new.pc = "store key" /\ new.key = old.key
        /\ new.refresh = old.refresh /\ new.since = old.since /\ new.found = old.found
        /\ old.todo = <<>> /\ cache' = Held(new.found)
    BY <1>0, <1>9, CallFields DEF Keeps
  <2>2. Seen(new.key, disk, edits)
    BY <1>0, <2>1 DEF CallInv
  <2>3. PICK k \in 0..Len(Dirs) :
            /\ old.todo = SubSeq(Dirs, k + 1, Len(Dirs))
            /\ Still(c) => old.listed = Listed /\ old.found = Prefix(k)
    BY <1>0, <2>1 DEF CallInv
  <2>4. k = Len(Dirs)
    <3>1. k \in Nat /\ Len(Dirs) \in Nat /\ k <= Len(Dirs) /\ Dirs \in Seq(Dir)
      BY DirFacts, RosterAssumption
    <3> DEFINE left == SubSeq(Dirs, k + 1, Len(Dirs))
    <3>2. left = <<>>
      BY <2>1, <2>3
    <3>3. k < Len(Dirs) => left # <<>>
      <4>1. SUFFICES ASSUME k < Len(Dirs) PROVE left # <<>>
        OBVIOUS
      <4>2. left \in Seq(Dir)
        BY <3>1
      <4>3. Len(left) = (Len(Dirs) - (k + 1)) + 1
        BY <3>1, <4>1
      <4>4. Len(left) > 0
        BY <3>1, <4>1, <4>3
      <4> HIDE DEF left
      <4> QED
        BY <4>2, <4>4
    <3> QED
      BY <3>1, <3>2, <3>3
  <2>5. Still(c)' = Still(c)
    BY <1>0, <1>9, <2>1 DEF Still, StoreScan, history
  <2>6. Still(c)' => new.found = Scanned'
    BY <1>0, <2>1, <2>3, <2>4, <2>5, ScannedIsPrefix
  <2>7. new.refresh = TRUE => AllRecent(new.found, new.since, disk)
    BY <1>0, <2>1 DEF CallInv
  <2> QED
    BY <1>0, <2>1, <2>2, <2>6, <2>7 DEF CallInv
<1>10. CASE StoreKey(c)
  <2>1. /\ old.pc = "store key" /\ new.pc = "found" /\ new.key = old.key
        /\ new.refresh = old.refresh /\ new.since = old.since /\ new.found = old.found
    BY <1>0, <1>10, CallFields DEF Keeps
  <2>2. new.since = edits => new.found = Scanned
    BY <1>0, <2>1 DEF CallInv, Still
  <2> QED
    BY <1>0, <2>1, <2>2 DEF CallInv
<1> QED
  BY <1>2, <1>3, <1>4, <1>5, <1>6, <1>7, <1>8, <1>9, <1>10 DEF Step

LEMMA ThreadCache ==
    ASSUME RosterInv, NEW c \in Call, Step(c) \/ Discover(c) \/ Refresh(c), ~crowded'
    PROVE  CacheInv'
<1>0. /\ TypeOK /\ DiskOK /\ CallInv(c) /\ CacheInv
      /\ Storing <=> call[c].pc = "store key"
      /\ Storing' <=> call'[c].pc = "store key"
      /\ disk' = disk /\ edits' = edits /\ Scanned' = Scanned /\ TreeKey' = TreeKey
  BY ThreadAlone, ThreadFrame DEF RosterInv, TypeOK
<1>1. CASE Refresh(c)
  BY <1>1 DEF Refresh, CacheInv
<1>2. CASE StoreScan(c)
  <2>1. call'[c].pc = "store key"
    BY <1>0, <1>2, CallFields
  <2> QED
    BY <1>0, <2>1 DEF CacheInv
<1>3. CASE StoreKey(c)
  <2>1. call[c].pc = "store key" /\ cache' = cache /\ cache_key' = call[c].key /\ blind' = blind
    BY <1>3 DEF StoreKey, history
  <2>2. /\ Seen(call[c].key, disk, edits) /\ cache = Held(call[c].found)
        /\ Still(c) => call[c].found = Scanned
    BY <1>0, <2>1 DEF CallInv
  <2>3. ~blind /\ call[c].key = TreeKey => Still(c)
    BY DEF Still
  <2> QED
    BY <1>0, <2>1, <2>2, <2>3 DEF CacheInv
<1>4. CASE Discover(c) \/ HashTree(c) \/ Hit(c) \/ Serve(c) \/ ServesNone(c) \/ Miss(c)
           \/ ScanOne(c) \/ Bind(c)
  <2>1. cache' = cache /\ cache_key' = cache_key /\ blind' = blind
    BY <1>4 DEF Discover, HashTree, Hit, Serve, ServesNone, Miss, ScanOne, Bind, history
  <2>2. call[c].pc # "store key"
    BY <1>4 DEF Discover, Begins, HashTree, Hit, Serve, ServesNone, Miss, ScanOne, Bind
  <2> QED
    BY <1>0, <2>1, <2>2 DEF CacheInv
<1> QED
  BY <1>1, <1>2, <1>3, <1>4 DEF Step

LEMMA ThreadBound ==
    ASSUME RosterInv, NEW c \in Call, Step(c) \/ Discover(c) \/ Refresh(c), ~crowded'
    PROVE  BoundInv'
<1>0. /\ TypeOK /\ CallInv(c) /\ BoundInv /\ call[c] \in Calls
      /\ disk' = disk /\ edits' = edits /\ Scanned' = Scanned
  BY ThreadAlone, ThreadFrame DEF RosterInv, TypeOK, CallOK
<1>1. CASE Bind(c) /\ call[c].refresh = TRUE
  <2> DEFINE found == call[c].found
             since == call[c].since
  <2>1. call[c].pc = "found" /\ registered' = Registry(found) /\ as_of' = since
    BY <1>1 DEF Bind
  <2>2. (since = edits => found = Scanned) /\ AllRecent(found, since, disk) /\ found \in Seq(Entries)
    BY <1>0, <1>1, <2>1 DEF CallInv, Calls
  <2> HIDE DEF found, since
  <2>3. \A n \in DOMAIN Registry(found) :
            Registry(found)[n].kind = "tool_loop" => Recent(Registry(found)[n], since, disk)
    BY <2>2, SpecsRecent
  <2>4. edits' = as_of' => registered' = Registry(Scanned)
    BY <1>0, <2>1, <2>2
  <2>5. Registry(Scanned)' = Registry(Scanned)
    BY <1>0 DEF Registry, SkillSpecs, SpecName
  <2> QED
    BY <1>0, <2>1, <2>3, <2>4, <2>5 DEF BoundInv
<1>2. CASE ~(Bind(c) /\ call[c].refresh = TRUE)
  <2>1. registered' = registered /\ as_of' = as_of
    BY <1>0, <1>2 DEF Calls, Step, Discover, Refresh, Begins, HashTree, Hit, Serve, ServesNone,
       Miss, ScanOne, StoreScan, StoreKey, Bind, history
  <2>2. Registry(Scanned)' = Registry(Scanned)
    BY <1>0 DEF Registry, SkillSpecs, SpecName
  <2> QED
    BY <1>0, <2>1, <2>2 DEF BoundInv
<1> QED
  BY <1>1, <1>2

LEMMA FreshStep == RosterInv /\ [Next]_vars => FreshInv'
<1> SUFFICES ASSUME RosterInv, [Next]_vars PROVE FreshInv'
  OBVIOUS
<1>1. ASSUME NEW c \in Call, Step(c) \/ Discover(c) \/ Refresh(c)
      PROVE  FreshInv'
  <2> SUFFICES ASSUME ~crowded' PROVE FreshInv'
    BY DEF FreshInv
  <2>1. \A b \in Call \ {c} : call[b].pc = "idle" /\ call'[b] = call[b] /\ CallInv(b)
    BY <1>1, ThreadAlone
  <2>2. \A b \in Call \ {c} : CallInv(b)'
    BY <2>1 DEF CallInv
  <2>3. CallInv(c)' /\ CacheInv' /\ BoundInv'
    BY <1>1, ThreadCall, ThreadCache, ThreadBound
  <2>4. \A a, b \in Call : call'[a].pc # "idle" /\ call'[b].pc # "idle" => a = b
    BY <2>1
  <2> QED
    BY <2>2, <2>3, <2>4 DEF FreshInv
<1>2. ASSUME NEW d \in Dir, Edit(d) \/ Delete(d) PROVE FreshInv'
  BY <1>2, EditFresh
<1>3. CASE ChangeDirectory \/ Done \/ UNCHANGED vars
  <2>2. /\ FreshInv
        /\ UNCHANGED <<disk, edits, cache, cache_key, registered, call, blind, crowded, as_of>>
    BY <1>3 DEF RosterInv, ChangeDirectory, Done, vars, history
  <2>3. /\ Scanned' = Scanned /\ TreeKey' = TreeKey /\ Listed' = Listed
        /\ \A k : Prefix(k)' = Prefix(k)
    BY <2>2 DEF Scanned, Parsed, TreeKey, Listed, Prefix, Pieces
  <2>4. ASSUME NEW c \in Call, CallInv(c) PROVE CallInv(c)'
    <3>1. Still(c)' = Still(c)
      BY <2>2, <2>3 DEF Still
    <3>2. call[c].pc = "scan" =>
             \E k \in 0..Len(Dirs) :
                 /\ call[c].todo = SubSeq(Dirs, k + 1, Len(Dirs))
                 /\ Still(c)' => call[c].listed = Listed' /\ call[c].found = Prefix(k)'
      BY <2>3, <2>4, <3>1 DEF CallInv
    <3> QED
      BY <2>2, <2>3, <2>4, <3>1, <3>2 DEF CallInv
  <2>5. CacheInv' <=> CacheInv
    BY <2>2, <2>3 DEF CacheInv, Storing
  <2>6. Registry(Scanned)' = Registry(Scanned)
    BY <2>3 DEF Registry, SkillSpecs, SpecName
  <2>7. BoundInv' <=> BoundInv
    BY <2>2, <2>6 DEF BoundInv
  <2> QED
    BY <2>2, <2>4, <2>5, <2>7 DEF FreshInv
<1> QED
  BY <1>1, <1>2, <1>3 DEF Next

-----------------------------------------------------------------------------
(* The roster is the tree's                                                *)

\* The inductive invariant: types, stamps, and, until calls overlap, what the call
\* under way, the cached scan and SUBAGENTS know of the tree
\* (discovery.py:159-206, subagents.py:143-158).
THEOREM RosterInvariant == Spec => []RosterInv
<1>1. Init => RosterInv
  BY TypeInit, StampInit, FreshInit DEF RosterInv
<1>2. RosterInv /\ [Next]_vars => RosterInv'
  BY TypeStep, StampStep, FreshStep DEF RosterInv
<1> QED
  BY <1>1, <1>2, PTL DEF Spec

\* A cached scan that would be served is what a new scan would find, whatever was
\* edited while it was made, as long as no calls overlapped and no edit kept the
\* time and size of a file (discovery.py:159-206).
THEOREM CachedIsDisk == Spec => []CacheIsDisk
<1>1. ASSUME RosterInv PROVE CacheIsDisk
  <2> SUFFICES ASSUME ~crowded, ~blind, cache # NoScan, cache_key = TreeKey,
                      \A c \in Call : call[c].pc # "store key"
               PROVE  cache = Held(Scanned)
    BY DEF CacheIsDisk
  <2>1. CacheInv /\ ~Storing
    BY <1>1 DEF RosterInv, FreshInv, Storing
  <2> QED
    BY <2>1 DEF CacheInv
<1> QED
  BY <1>1, RosterInvariant, PTL

\* SUBAGENTS is not older than the beginning of the refresh that bound it, and with
\* nothing edited since it names exactly what the tree declares, the first directory
\* of a name first (subagents.py:66-102, 130-158).
THEOREM RosterIsFresh == Spec => []RosterFresh
<1>1. ASSUME RosterInv PROVE RosterFresh
  <2> SUFFICES ASSUME ~crowded PROVE RosterFresh
    BY DEF RosterFresh
  <2>1. BoundInv /\ DiskOK
    BY <1>1 DEF RosterInv, FreshInv, TypeOK
  <2>2. ASSUME edits = as_of, NEW n
        PROVE  /\ n \in DOMAIN registered <=> n \in Remote \/ Declaring(n) # {}
               /\ n \in DOMAIN registered => (Local(n) <=> n \notin Remote)
               /\ n \in DOMAIN registered /\ Local(n)
                      => registered[n].from = Dirs[Min(Declaring(n))]
    <3>1. registered = Registry(Scanned)
      BY <2>1, <2>2 DEF BoundInv
    <3>2. /\ n \in DOMAIN registered <=> n \in Remote \/ Declaring(n) # {}
          /\ n \in DOMAIN registered => (registered[n].kind = "tool_loop" <=> n \notin Remote)
          /\ n \in DOMAIN registered /\ n \notin Remote
                 => registered[n].from = Dirs[Min(Declaring(n))]
      BY <2>1, <3>1, RegistryExact
    <3> QED
      BY <3>2 DEF Local
  <2>3. ASSUME NEW n \in DOMAIN registered, Local(n), disk[registered[n].from] # NoFile,
               disk[registered[n].from].edit <= as_of
        PROVE  registered[n].edit = disk[registered[n].from].edit
    BY <2>1, <2>3 DEF BoundInv, Recent, Local
  <2> QED
    BY <2>2, <2>3 DEF RosterFresh
<1> QED
  BY <1>1, RosterInvariant, PTL

=============================================================================
