------------------------- MODULE ObjectTreesProofs -------------------------
(***************************************************************************)
(* The commands on trees of objects, for all names, prefixes, command lines *)
(* and stores: a move loses no file, a sync that nobody disturbed settles,   *)
(* and no command touches what it was not asked for.                        *)
(***************************************************************************)
EXTENDS ObjectTrees, TLAPS

-----------------------------------------------------------------------------
(* Names.                                                                    *)

LEMMA DropOfConcat ==
    ASSUME NEW T, NEW p \in Seq(T), NEW r \in Seq(T)
    PROVE  Drop(p \o r, Len(p)) = r
  BY DEF Drop

LEMMA ConcatOfDrop ==
    ASSUME NEW T, NEW n \in Seq(T), NEW p \in Seq(T), StartsWith(n, p)
    PROVE  p \o Drop(n, Len(p)) = n /\ Drop(n, Len(p)) \in Seq(T)
  BY DEF Drop, StartsWith

LEMMA ConcatStartsWith ==
    ASSUME NEW T, NEW p \in Seq(T), NEW r \in Seq(T)
    PROVE  StartsWith(p \o r, p)
  BY DEF StartsWith

\* Two prefixes of one name.
LEMMA PrefixesCompare ==
    ASSUME NEW T, NEW n \in Seq(T), NEW p \in Seq(T), NEW q \in Seq(T),
           StartsWith(n, p), StartsWith(n, q)
    PROVE  StartsWith(p, q) \/ StartsWith(q, p)
<1>1. CASE Len(p) <= Len(q)
  <2>1. SubSeq(q, 1, Len(p)) = SubSeq(n, 1, Len(p))
    BY <1>1 DEF StartsWith
  <2>. QED
    BY <1>1, <2>1 DEF StartsWith
<1>2. CASE Len(q) <= Len(p)
  <2>1. SubSeq(p, 1, Len(q)) = SubSeq(n, 1, Len(q))
    BY <1>2 DEF StartsWith
  <2>. QED
    BY <1>2, <2>1 DEF StartsWith
<1>. QED
  BY <1>1, <1>2

LEMMA SlashFirst ==
    ASSUME NEW T, NEW x \in T, NEW r \in Seq(T)
    PROVE  /\ <<x>> \o r \in Seq(T) /\ Tail(<<x>> \o r) = r
           /\ StartsWith(<<x>> \o r, <<x>>)
<1>1. <<x>> \o r \in Seq(T) /\ Tail(<<x>> \o r) = r
  OBVIOUS
<1>2. StartsWith(<<x>> \o r, <<x>>)
  <2>1. <<x>> \in Seq(T)
    OBVIOUS
  <2>. QED
    BY <2>1, ConcatStartsWith
<1>. QED
  BY <1>1, <1>2

LEMMA SlashOff ==
    ASSUME NEW T, NEW t \in Seq(T), NEW x, t # <<>>, t[1] = x
    PROVE  <<x>> \o Tail(t) = t /\ Tail(t) \in Seq(T) /\ StartsWith(t, <<x>>)
<1>1. <<x>> \o Tail(t) = t /\ Tail(t) \in Seq(T)
  OBVIOUS
<1>2. x \in T /\ Tail(t) \in Seq(T)
  BY <1>1
<1>3. StartsWith(<<x>> \o Tail(t), <<x>>)
  BY <1>2, SlashFirst
<1>. QED
  BY <1>1, <1>3

LEMMA JoinedName ==
    ASSUME NEW p \in Seq(Tokens), NEW r \in Seq(Tokens)
    PROVE  /\ JoinKey(p, r) \in Seq(Tokens)
           /\ StartsWith(JoinKey(p, r), p)
           /\ RelKey(p, JoinKey(p, r)) = r
<1>. Slash \in Tokens /\ <<Slash>> \in Seq(Tokens)
  BY TreesAssumption
<1>1. CASE p = <<>> \/ EndsInSlash(p)
  <2>1. JoinKey(p, r) = p \o r /\ Drop(p \o r, Len(p)) = r /\ StartsWith(p \o r, p)
    BY <1>1, DropOfConcat, ConcatStartsWith DEF JoinKey
  <2>. QED
    BY <1>1, <2>1 DEF RelKey
<1>2. CASE ~ (p = <<>> \/ EndsInSlash(p))
  <2>. DEFINE s == <<Slash>> \o r
  <2>1. JoinKey(p, r) = p \o s
    BY <1>2 DEF JoinKey
  <2>2. s \in Seq(Tokens) /\ StartsWith(s, <<Slash>>) /\ Tail(s) = r
    BY SlashFirst
  <2>. HIDE DEF s
  <2>3. Drop(p \o s, Len(p)) = s /\ StartsWith(p \o s, p)
    BY <2>2, DropOfConcat, ConcatStartsWith
  <2>. QED
    BY <1>2, <2>1, <2>2, <2>3 DEF RelKey
<1>. QED
  BY <1>1, <1>2

LEMMA RelOfName ==
    ASSUME NEW p \in Seq(Tokens), NEW n \in Seq(Tokens), StartsWith(n, p)
    PROVE  RelKey(p, n) \in Seq(Tokens)
<1>1. Drop(n, Len(p)) \in Seq(Tokens)
  BY ConcatOfDrop
<1>2. StartsWith(Drop(n, Len(p)), <<Slash>>) => Drop(n, Len(p)) # <<>>
  BY DEF StartsWith
<1>. QED
  BY <1>1, <1>2 DEF RelKey

\* A name on the boundary of the prefix is put together again.
LEMMA JoinOfRel ==
    ASSUME NEW p \in Seq(Tokens), NEW n \in Seq(Tokens), StartsWith(n, p),
           p = <<>> \/ EndsInSlash(p) \/ StartsWith(n, p \o <<Slash>>)
    PROVE  JoinKey(p, RelKey(p, n)) = n
<1>. DEFINE t == Drop(n, Len(p))
<1>1. t \in Seq(Tokens) /\ p \o t = n
  BY ConcatOfDrop
<1>. HIDE DEF t
<1>2. CASE p = <<>> \/ EndsInSlash(p)
  BY <1>1, <1>2 DEF JoinKey, RelKey, t
<1>3. CASE ~ (p = <<>> \/ EndsInSlash(p))
  <2>1. StartsWith(n, p \o <<Slash>>)
    BY <1>3
  <2>2. Slash \in Tokens
    BY TreesAssumption
  <2>3. p \o <<Slash>> \in Seq(Tokens) /\ Len(p \o <<Slash>>) = Len(p) + 1
    BY <2>2
  <2>4. Len(n) >= Len(p) + 1 /\ n[Len(p) + 1] = Slash
    BY <2>1, <2>3 DEF StartsWith
  <2>5. t # <<>> /\ t[1] = Slash /\ Len(t) = Len(n) - Len(p)
    <3>1. Len(p) \in Nat /\ Len(n) \in Nat /\ t = SubSeq(n, Len(p) + 1, Len(n))
      BY DEF t, Drop
    <3>2. Len(t) = Len(n) - Len(p)
      BY <2>4, <3>1
    <3>3. t[1] = n[Len(p) + 1]
      BY <2>4, <3>1
    <3>4. t \in Seq(Tokens) /\ Len(t) # 0
      BY <1>1, <2>4, <3>1, <3>2
    <3>. QED
      BY <2>4, <3>2, <3>3, <3>4
  <2>6. StartsWith(t, <<Slash>>) /\ <<Slash>> \o Tail(t) = t /\ Tail(t) \in Seq(Tokens)
    BY <1>1, <2>5, SlashOff
  <2>7. RelKey(p, n) = Tail(t)
    BY <1>3, <2>6 DEF RelKey, t
  <2>8. JoinKey(p, Tail(t)) = p \o (<<Slash>> \o Tail(t))
    BY <1>3, <2>2, <2>6 DEF JoinKey
  <2>. QED
    BY <1>1, <2>6, <2>7, <2>8
<1>. QED
  BY <1>2, <1>3

LEMMA PathOfRel ==
    ASSUME NEW r \in Seq(Tokens)
    PROVE  LocalPath(r) \in Seq(Tokens) /\ (~ EndsInSlash(r) => LocalPath(r) = r)
  BY DEF LocalPath, EndsInSlash

\* What a key of the bucket is stored as has no slash at its end.
LEMMA PathOfKey ==
    ASSUME NEW p \in Seq(Tokens), NEW k \in Keys, StartsWith(k, p)
    PROVE  ~ EndsInSlash(LocalPath(RelKey(p, k)))
<1>. DEFINE r == RelKey(p, k)
<1>1. k \in Seq(Tokens) /\ \A i \in 1 .. Len(k) - 1 : k[i] = Slash => k[i + 1] # Slash
  BY TreesAssumption
<1>2. r \in Seq(Tokens) /\ \E j \in Nat : j <= Len(k) /\ r = Drop(k, j)
  <2>1. r \in Seq(Tokens) /\ Drop(k, Len(p)) \in Seq(Tokens) /\ Len(p) <= Len(k)
    BY <1>1, RelOfName, ConcatOfDrop DEF StartsWith
  <2>2. CASE r = Drop(k, Len(p))
    BY <2>1, <2>2
  <2>3. CASE r = Tail(Drop(k, Len(p))) /\ StartsWith(Drop(k, Len(p)), <<Slash>>)
    <3>1. Len(Drop(k, Len(p))) >= 1
      BY <2>1, <2>3 DEF StartsWith
    <3>2. Len(p) + 1 <= Len(k) /\ r = Drop(k, Len(p) + 1)
      BY <1>1, <2>1, <2>3, <3>1 DEF Drop
    <3>. QED
      BY <2>1, <3>2
  <2>. QED
    BY <2>1, <2>2, <2>3 DEF RelKey
<1>3. PICK j \in Nat : j <= Len(k) /\ r = Drop(k, j)
  BY <1>2
<1>. HIDE DEF r
<1>4. Len(r) = Len(k) - j /\ \A i \in 1 .. Len(r) : r[i] = k[j + i]
  BY <1>1, <1>3 DEF Drop
<1>5. CASE ~ EndsInSlash(r)
  BY <1>2, <1>5, PathOfRel DEF r
<1>6. CASE EndsInSlash(r)
  <2>1. SUFFICES ASSUME EndsInSlash(SubSeq(r, 1, Len(r) - 1))
                 PROVE  FALSE
    BY <1>6 DEF LocalPath, r
  <2>2. Len(r) >= 2 /\ r[Len(r) - 1] = Slash /\ r[Len(r)] = Slash
    BY <1>2, <1>6, <2>1 DEF EndsInSlash
  <2>3. k[j + (Len(r) - 1)] = Slash /\ k[j + Len(r)] = Slash
    <3>1. Len(r) - 1 \in 1 .. Len(r) /\ Len(r) \in 1 .. Len(r)
      BY <1>2, <2>2
    <3>. QED
      BY <1>4, <2>2, <3>1
  <2>4. j + (Len(r) - 1) \in 1 .. Len(k) - 1 /\ (j + (Len(r) - 1)) + 1 = j + Len(r)
    BY <1>1, <1>4, <2>2
  <2>. QED
    BY <1>1, <2>3, <2>4
<1>. QED
  BY <1>5, <1>6

-----------------------------------------------------------------------------
(* Stores.                                                                   *)

\* What a store holds: of a time that has come.
Object(o, now) ==
    /\ o = [data |-> o.data, size |-> o.size, time |-> o.time]
    /\ o.size \in Nat /\ o.time \in Nat /\ o.time <= now
Objects(store, now) == \A n \in DOMAIN store : Object(store[n], now)

LEMMA LaterObject ==
    ASSUME NEW now \in Nat, NEW later \in Nat, NEW o, Object(o, now), now <= later
    PROVE  Object(o, later)
<1>1. o.time \in Nat /\ o.time <= now
  BY DEF Object
<1>2. o.time <= later
  BY <1>1
<1>. QED
  BY <1>2, Zenon DEF Object

LEMMA PutObjects ==
    ASSUME NEW store, NEW now \in Nat, NEW later \in Nat, NEW name, NEW object,
           Objects(store, now), now <= later, Object(object, later)
    PROVE  Objects(Put(store, name, object), later)
<1>. SUFFICES ASSUME NEW n \in DOMAIN Put(store, name, object)
              PROVE  Object(Put(store, name, object)[n], later)
  BY DEF Objects
<1>1. CASE n = name
  BY <1>1 DEF Put, Over
<1>2. CASE n # name
  <2>1. n \in DOMAIN store /\ Put(store, name, object)[n] = store[n]
    BY <1>2 DEF Put, Over
  <2>. QED
    BY <2>1, LaterObject DEF Objects
<1>. QED
  BY <1>1, <1>2

LEMMA WithoutObjects ==
    ASSUME NEW store, NEW now \in Nat, NEW later \in Nat, NEW name,
           Objects(store, now), now <= later
    PROVE  Objects(Without(store, name), later)
<1>. SUFFICES ASSUME NEW n \in DOMAIN Without(store, name)
              PROVE  Object(Without(store, name)[n], later)
  BY DEF Objects
<1>1. n \in DOMAIN store /\ Without(store, name)[n] = store[n]
  BY DEF Without
<1>. QED
  BY <1>1, LaterObject DEF Objects

LEMMA LaterObjects ==
    ASSUME NEW store, NEW now \in Nat, NEW later \in Nat,
           Objects(store, now), now <= later
    PROVE  Objects(store, later)
  BY LaterObject DEF Objects

\* A copy has the contents and the size of what was copied.
LEMMA StoredIs ==
    ASSUME NEW n \in DOMAIN SrcStore, Objects(SrcStore, clock), clock \in Nat
    PROVE  /\ Object(Stored(n), clock)
           /\ Stored(n).data = SrcStore[n].data /\ Stored(n).size = SrcStore[n].size
           /\ Stored(n).time = clock
<1>. DEFINE o == SrcStore[n]
<1>1. o = [data |-> o.data, size |-> o.size, time |-> o.time] /\ o.size \in Nat
  BY DEF Objects, Object
<1>2. Stored(n) = [o EXCEPT !.time = clock]
  BY DEF Stored
<1>. HIDE DEF o
<1>3. [o EXCEPT !.time = clock] = [data |-> o.data, size |-> o.size, time |-> clock]
  BY <1>1
<1>. QED
  BY <1>1, <1>2, <1>3 DEF Object, o

-----------------------------------------------------------------------------
(* Types.                                                                    *)

Ways == {"upload", "download", "copy"}

\* Where a tree is stored: a file's name has no slash at its end.
Target(name) == name \in Seq(Tokens) /\ (ToLocal => ~ EndsInSlash(name))
TreeNames ==
    /\ DOMAIN local \subseteq Seq(Tokens) /\ DOMAIN bucket \subseteq Seq(Tokens)
    /\ \A n \in DOMAIN local : ~ EndsInSlash(n)
    /\ ToLocal => DOMAIN bucket \subseteq Keys
    /\ \A t \in todo : Target(t.to)
    /\ step = "store" => Target(hold.to)

TypeInv ==
    /\ cmd \in Invocations
    /\ step \in {"idle", "next", "store", "remove"}
    /\ clock \in Nat /\ round \in Nat /\ edits \in Nat
    /\ Objects(local, clock) /\ Objects(bucket, clock)
    /\ cmd.tree => TreeNames

LEMMA CommandLine ==
    ASSUME cmd \in Invocations
    PROVE  /\ cmd.way \in Ways /\ cmd.op \in {"cp", "mv", "sync"}
           /\ cmd.src \in Seq(Tokens) /\ cmd.dst \in Seq(Tokens)
           /\ cmd.op = "sync" => cmd.tree
           /\ cmd.tree \in BOOLEAN
           /\ cmd.way = "copy" <=> ~ FromLocal /\ ~ ToLocal
           /\ ~ (FromLocal /\ ToLocal)
  BY TreesAssumption DEF Ways, FromLocal, ToLocal

LEMMA FirstObjects ==
    ASSUME NEW names, NEW isSource \in BOOLEAN, NEW s \in FilesAt(names, isSource)
    PROVE  /\ DOMAIN s \subseteq names
           /\ \A n \in DOMAIN s : s[n] \in [data : {<<>>}, size : Nat, time : 1 .. 3]
<1>. DEFINE held == IF cmd.op = "sync" /\ ~ isSource
                    THEN [data : {<<>>}, size : Sizes, time : 1 .. 3]
                    ELSE [data : {<<>>}, size : {1}, time : {2}]
<1>1. PICK S \in SUBSET names : s \in [S -> held]
  BY DEF FilesAt
<1>2. held \subseteq [data : {<<>>}, size : Nat, time : 1 .. 3]
  <2>1. Sizes \subseteq Nat
    BY TreesAssumption
  <2>2. [data : {<<>>}, size : Sizes, time : 1 .. 3]
          \subseteq [data : {<<>>}, size : Nat, time : 1 .. 3]
    BY <2>1
  <2>3. [data : {<<>>}, size : {1}, time : {2}]
          \subseteq [data : {<<>>}, size : Nat, time : 1 .. 3]
    OBVIOUS
  <2>. QED
    BY <2>2, <2>3
<1>. HIDE DEF held
<1>. QED
  BY <1>1, <1>2

LEMMA OwnObjects ==
    ASSUME NEW s, NEW tag,
           \A n \in DOMAIN s : s[n] \in [data : {<<>>}, size : Nat, time : 1 .. 3]
    PROVE  Objects(Own(s, tag), 4) /\ DOMAIN Own(s, tag) = DOMAIN s
<1>. SUFFICES ASSUME NEW n \in DOMAIN s
              PROVE  Object([s[n] EXCEPT !.data = <<tag, n>>], 4)
  BY DEF Own, Objects
<1>. DEFINE o == s[n]
<1>1. o \in [data : {<<>>}, size : Nat, time : 1 .. 3]
  OBVIOUS
<1>. HIDE DEF o
<1>2. [o EXCEPT !.data = <<tag, n>>] = [data |-> <<tag, n>>, size |-> o.size, time |-> o.time]
  BY <1>1
<1>. QED
  BY <1>1, <1>2 DEF Object, o

LEMMA TypeInit == Init => TypeInv
<1>. SUFFICES ASSUME Init
              PROVE  TypeInv
  OBVIOUS
<1>. USE DEF Init
<1>0. cmd \in Invocations
  OBVIOUS
<1>1. PICK s \in FilesAt(IF cmd.way = "copy" THEN {} ELSE Files, FromLocal) :
          local = Own(s, "local")
  OBVIOUS
<1>2. DOMAIN s \subseteq Files
      /\ \A n \in DOMAIN s : s[n] \in [data : {<<>>}, size : Nat, time : 1 .. 3]
  <2>1. FromLocal \in BOOLEAN
    BY DEF FromLocal
  <2>. QED
    BY <2>1, FirstObjects
<1>3. Objects(local, 4) /\ DOMAIN local \subseteq Files
  BY <1>1, <1>2, OwnObjects
<1>4. PICK u \in FilesAt({k \in Keys : ~ FromLocal /\ StartsWith(k, cmd.src)}, TRUE),
           v \in FilesAt({k \in Keys : ~ ToLocal /\ StartsWith(k, cmd.dst)}, FALSE) :
          bucket = Own(Over(u, v), "bucket")
  BY Zenon
<1>5. /\ DOMAIN u \subseteq Keys /\ DOMAIN v \subseteq Keys
      /\ \A n \in DOMAIN u : u[n] \in [data : {<<>>}, size : Nat, time : 1 .. 3]
      /\ \A n \in DOMAIN v : v[n] \in [data : {<<>>}, size : Nat, time : 1 .. 3]
  <2>1. u \in FilesAt({k \in Keys : ~ FromLocal /\ StartsWith(k, cmd.src)}, TRUE)
        /\ v \in FilesAt({k \in Keys : ~ ToLocal /\ StartsWith(k, cmd.dst)}, FALSE)
    BY <1>4
  <2>. QED
    BY <2>1, FirstObjects
<1>6. /\ DOMAIN Over(u, v) \subseteq Keys
      /\ \A n \in DOMAIN Over(u, v) :
            Over(u, v)[n] \in [data : {<<>>}, size : Nat, time : 1 .. 3]
  BY <1>5 DEF Over
<1>7. Objects(bucket, 4) /\ DOMAIN bucket \subseteq Keys
  BY <1>4, <1>6, OwnObjects
<1>. QED
  BY <1>3, <1>7, TreesAssumption DEF TypeInv, TreeNames

\* The rels of the source's names, and where they go.
LEMMA SourceRel ==
    ASSUME TypeInv, cmd.tree, NEW n \in Side(SrcStore, FromLocal, cmd.src)
    PROVE  SrcRel(n) \in Seq(Tokens) /\ Target(DstName(SrcRel(n)))
<1>1. cmd.src \in Seq(Tokens) /\ cmd.dst \in Seq(Tokens) /\ ~ (FromLocal /\ ToLocal)
  BY CommandLine DEF TypeInv
<1>2. n \in Seq(Tokens) /\ (FromLocal \/ StartsWith(n, cmd.src)) /\ (ToLocal => n \in Keys)
  BY <1>1 DEF TypeInv, TreeNames, Side, SrcStore
<1>3. SrcRel(n) \in Seq(Tokens)
  BY <1>1, <1>2, RelOfName DEF SrcRel, SideRel
<1>4. CASE ToLocal
  <2>1. SrcRel(n) = RelKey(cmd.src, n) /\ DstName(SrcRel(n)) = LocalPath(SrcRel(n))
    BY <1>1, <1>4 DEF SrcRel, SideRel, DstName, SideName
  <2>2. ~ EndsInSlash(LocalPath(RelKey(cmd.src, n)))
    BY <1>1, <1>2, <1>4, PathOfKey
  <2>. QED
    BY <1>3, <2>1, <2>2, PathOfRel DEF Target
<1>5. CASE ~ ToLocal
  <2>1. DstName(SrcRel(n)) = JoinKey(cmd.dst, SrcRel(n))
    BY <1>5 DEF DstName, SideName
  <2>. QED
    BY <1>1, <1>3, <1>5, <2>1, JoinedName DEF Target
<1>. QED
  BY <1>3, <1>4, <1>5

LEMMA EntryOfSource ==
    ASSUME NEW e \in SrcEntries
    PROVE  \E n \in Side(SrcStore, FromLocal, cmd.src) :
              e.rel = SrcRel(n) /\ e.at = SrcStore[n] /\ e.rel # <<>> /\ Included(e.rel)
  BY DEF SrcEntries, Entries, SrcRel

LEMMA EntryOfDestination ==
    ASSUME NEW e \in DstEntries
    PROVE  \E n \in Side(DstStore, ToLocal, cmd.dst) :
              /\ e.rel = SideRel(ToLocal, cmd.dst, n) /\ e.at = DstStore[n]
              /\ e.rel # <<>> /\ Included(e.rel)
  BY DEF DstEntries, Entries

LEMMA SourceRels ==
    \A r : r \in Rels(SrcEntries) <=>
        \E n \in Side(SrcStore, FromLocal, cmd.src) :
            SrcRel(n) = r /\ r # <<>> /\ Included(r)
<1>. TAKE r
<1>1. ASSUME NEW n \in Side(SrcStore, FromLocal, cmd.src),
             SrcRel(n) = r, r # <<>>, Included(r)
      PROVE  r \in Rels(SrcEntries)
  <2>1. [rel |-> SrcRel(n), at |-> SrcStore[n]] \in SrcEntries
    BY <1>1 DEF SrcEntries, Entries, SrcRel
  <2>. QED
    BY <1>1, <2>1 DEF Rels
<1>. QED
  BY <1>1, EntryOfSource DEF Rels

LEMMA DestinationRels ==
    \A r : r \in Rels(DstEntries) <=>
        \E n \in Side(DstStore, ToLocal, cmd.dst) :
            SideRel(ToLocal, cmd.dst, n) = r /\ r # <<>> /\ Included(r)
<1>. TAKE r
<1>1. ASSUME NEW n \in Side(DstStore, ToLocal, cmd.dst),
             SideRel(ToLocal, cmd.dst, n) = r, r # <<>>, Included(r)
      PROVE  r \in Rels(DstEntries)
  <2>1. [rel |-> SideRel(ToLocal, cmd.dst, n), at |-> DstStore[n]] \in DstEntries
    BY <1>1 DEF DstEntries, Entries
  <2>. QED
    BY <1>1, <2>1 DEF Rels
<1>. QED
  BY <1>1, EntryOfDestination DEF Rels

\* What a listing finds may be stored.
LEMMA TargetsListed ==
    ASSUME TypeInv, cmd.tree, ListCopies \/ PlanSync, NEW t \in todo'
    PROVE  Target(t.to)
<1>1. CASE ListCopies
  <2>1. todo' = TreeTransfers(SrcStore)
    BY <1>1 DEF ListCopies, TransfersFrom
  <2>2. PICK n \in Side(SrcStore, FromLocal, cmd.src) : t = [from |-> n, to |-> DstName(SrcRel(n))]
    BY <2>1 DEF TreeTransfers
  <2>. QED
    BY <2>2, SourceRel
<1>2. CASE PlanSync
  <2>1. PICK index \in Index(DstEntries) :
            todo' = {[from |-> SrcName(r), to |-> DstName(r)] : r \in ToCopy(index)}
    BY <1>2 DEF PlanSync
  <2>2. PICK r \in ToCopy(index) : t = [from |-> SrcName(r), to |-> DstName(r)]
    BY <2>1
  <2>3. PICK e \in SrcEntries : r = e.rel
    BY DEF ToCopy
  <2>4. PICK n \in Side(SrcStore, FromLocal, cmd.src) : e.rel = SrcRel(n)
    BY EntryOfSource
  <2>. QED
    BY <2>2, <2>3, <2>4, SourceRel
<1>. QED
  BY <1>1, <1>2

LEMMA CommandStays == [Next]_vars => cmd' = cmd /\ first' = first
  BY DEF Next, Scan, ListCopies, PlanSync, ListFails, Starts, Preview, Begin, Store,
         RemoveFile, RemoveDownloaded, RemoveCopied, RemoveObject, DeleteFile, DeleteObject,
         Finish, Edit, vars

LEMMA TypeStep == TypeInv /\ [Next]_vars => TypeInv'
<1>. SUFFICES ASSUME TypeInv, [Next]_vars
              PROVE  TypeInv'
  OBVIOUS
<1>. USE DEF TypeInv
<1>0. /\ cmd.way \in Ways /\ (cmd.way = "copy" <=> ~ FromLocal /\ ~ ToLocal)
      /\ ~ (FromLocal /\ ToLocal)
  BY CommandLine
<1>1. CASE ListCopies \/ PlanSync
  <2>1. /\ UNCHANGED <<cmd, local, bucket, clock, edits>>
        /\ round' = round + 1 /\ step' = "next"
    BY <1>1 DEF ListCopies, PlanSync, Starts, Listed
  <2>2. cmd.tree => TreeNames'
    BY <1>1, <2>1, TargetsListed DEF TreeNames, Target, ToLocal
  <2>. QED
    BY <2>1, <2>2 DEF Objects, Object
<1>2. CASE ListFails
  <2>1. /\ UNCHANGED <<cmd, local, bucket, clock, edits>>
        /\ round' = round + 1 /\ step' = "idle" /\ todo' = {}
    BY <1>2 DEF ListFails, Starts, Fail
  <2>. QED
    BY <2>1 DEF Objects, Object, TreeNames, ToLocal
<1>3. CASE Preview \/ Finish
  <2>1. /\ UNCHANGED <<cmd, local, bucket, clock, edits, round>>
        /\ step' = "idle" /\ todo' \subseteq todo
    BY <1>3 DEF Preview, Finish, counters
  <2>. QED
    BY <2>1 DEF Objects, Object, TreeNames, ToLocal, Target
<1>4. CASE Begin
  <2>1. UNCHANGED <<cmd, bucket, clock, edits, round>> /\ todo' \subseteq todo
    BY <1>4 DEF Begin, Fail, counters
  <2>2. CASE step' = "idle" /\ UNCHANGED local
    BY <2>1, <2>2 DEF Objects, Object, TreeNames, ToLocal, Target
  <2>3. CASE ~ (step' = "idle" /\ UNCHANGED local)
    <3>. DEFINE empty == [data |-> <<>>, size |-> 0, time |-> clock]
    <3>1. PICK t \in todo :
              /\ hold' = t /\ step' = "store"
              /\ local' = IF ToLocal THEN Put(local, t.to, empty) ELSE local
      BY <1>4, <2>3 DEF Begin, Fail
    <3>2. Object(empty, clock)
      BY DEF Object
    <3>. HIDE DEF empty
    <3>3. Objects(local', clock)
      BY <3>1, <3>2, PutObjects
    <3>4. cmd.tree => TreeNames'
      <4>. SUFFICES ASSUME cmd.tree
                    PROVE  TreeNames'
        OBVIOUS
      <4>1. Target(t.to)
        BY DEF TreeNames
      <4>2. \A n \in DOMAIN local' : n \in DOMAIN local \/ (ToLocal /\ n = t.to)
        BY <3>1 DEF Put, Over
      <4>. QED
        BY <2>1, <3>1, <4>1, <4>2 DEF TreeNames, Target, ToLocal
    <3>. QED
      BY <2>1, <3>1, <3>3, <3>4 DEF Objects, Object
  <2>. QED
    BY <2>2, <2>3
<1>5. CASE Store
  <2>1. UNCHANGED <<cmd, edits, round>> /\ todo' \subseteq todo /\ step = "store"
    BY <1>5 DEF Store, Fail
  <2>2. CASE NotStored /\ Fail /\ UNCHANGED clock
    <3>1. Objects(local', clock) /\ DOMAIN local' \subseteq DOMAIN local
      <4>1. local' = local \/ local' = Without(local, hold.to)
        BY <2>2 DEF NotStored
      <4>. QED
        BY <4>1, WithoutObjects DEF Without
    <3>. QED
      BY <2>1, <2>2, <3>1 DEF NotStored, Fail, Objects, Object, TreeNames, ToLocal, Target
  <2>3. CASE /\ hold.from \in DOMAIN SrcStore
             /\ Uploaded \/ Downloaded \/ Copied
             /\ clock' = clock + 1 /\ Landed /\ UNCHANGED todo
    <3>1. Object(Stored(hold.from), clock)
      <4>1. Objects(SrcStore, clock)
        BY DEF SrcStore
      <4>. QED
        BY <2>3, <4>1, StoredIs
    <3>2. Object(Stored(hold.from), clock + 1) /\ clock + 1 \in Nat /\ clock <= clock + 1
      BY <3>1, LaterObject
    <3>3. step' \in {"next", "remove"}
      BY <2>3 DEF Landed
    <3>4. CASE Uploaded \/ Copied
      <4>1. bucket' = Put(bucket, hold.to, Stored(hold.from)) /\ local' = local /\ ~ ToLocal
        BY <1>0, <3>4 DEF Uploaded, Copied
      <4>2. Objects(bucket', clock + 1) /\ Objects(local', clock + 1)
        BY <3>2, <4>1, PutObjects, LaterObjects
      <4>3. DOMAIN bucket' = DOMAIN bucket \cup {hold.to}
        BY <4>1 DEF Put, Over
      <4>4. cmd.tree => TreeNames'
        BY <2>1, <2>3, <3>3, <4>1, <4>3 DEF TreeNames, Target, ToLocal
      <4>. QED
        BY <2>1, <2>3, <3>2, <3>3, <4>2, <4>4
    <3>5. CASE Downloaded
      <4>1. local' = Put(local, hold.to, Stored(hold.from)) /\ bucket' = bucket /\ ToLocal
        BY <3>5 DEF Downloaded
      <4>2. Objects(bucket', clock + 1) /\ Objects(local', clock + 1)
        BY <3>2, <4>1, PutObjects, LaterObjects
      <4>3. DOMAIN local' = DOMAIN local \cup {hold.to}
        BY <4>1 DEF Put, Over
      <4>4. cmd.tree => TreeNames'
        BY <2>1, <2>3, <3>3, <4>1, <4>3 DEF TreeNames, Target, ToLocal
      <4>. QED
        BY <2>1, <2>3, <3>2, <3>3, <4>2, <4>4
    <3>. QED
      BY <2>3, <3>4, <3>5
  <2>. QED
    BY <1>5, <2>2, <2>3 DEF Store
<1>6. CASE RemoveFile \/ RemoveDownloaded \/ RemoveCopied \/ DeleteFile \/ DeleteObject
  <2>1. /\ UNCHANGED <<cmd, edits, round, clock>> /\ todo' \subseteq todo
        /\ step' \in {"idle", "next"} /\ step \in {"next", "remove"}
    BY <1>6 DEF RemoveFile, RemoveDownloaded, RemoveCopied, RemoveObject, DeleteFile,
                DeleteObject, Deleting, Fail
  <2>2. /\ local' = local \/ \E n : local' = Without(local, n)
        /\ bucket' = bucket \/ \E n : bucket' = Without(bucket, n)
    BY <1>6 DEF RemoveFile, RemoveDownloaded, RemoveCopied, RemoveObject, DeleteFile,
                DeleteObject
  <2>3. /\ Objects(local', clock) /\ DOMAIN local' \subseteq DOMAIN local
        /\ Objects(bucket', clock) /\ DOMAIN bucket' \subseteq DOMAIN bucket
    <3>1. Objects(local', clock) /\ DOMAIN local' \subseteq DOMAIN local
      <4>1. CASE local' = local
        BY <4>1
      <4>2. CASE \E n : local' = Without(local, n)
        <5>1. PICK n : local' = Without(local, n)
          BY <4>2
        <5>2. Objects(Without(local, n), clock) /\ clock <= clock
          BY WithoutObjects
        <5>. QED
          BY <5>1, <5>2 DEF Without
      <4>. QED
        BY <2>2, <4>1, <4>2
    <3>2. Objects(bucket', clock) /\ DOMAIN bucket' \subseteq DOMAIN bucket
      <4>1. CASE bucket' = bucket
        BY <4>1
      <4>2. CASE \E n : bucket' = Without(bucket, n)
        <5>1. PICK n : bucket' = Without(bucket, n)
          BY <4>2
        <5>2. Objects(Without(bucket, n), clock) /\ clock <= clock
          BY WithoutObjects
        <5>. QED
          BY <5>1, <5>2 DEF Without
      <4>. QED
        BY <2>2, <4>1, <4>2
    <3>. QED
      BY <3>1, <3>2
  <2>4. cmd.tree => TreeNames'
    BY <2>1, <2>3 DEF TreeNames, Target, ToLocal
  <2>. QED
    BY <2>1, <2>3, <2>4
<1>7. CASE Edit
  <2>1. UNCHANGED <<cmd, todo, hold, step, round>> /\ clock' = clock + 1 /\ edits' = edits + 1
    BY <1>7 DEF Edit, work
  <2>2. PICK n \in Side(SrcStore, FromLocal, cmd.src), s \in Sizes \cup {0} :
          LET after == IF s = 0 THEN Without(SrcStore, n)
                       ELSE Put(SrcStore, n, [data |-> <<"edit", edits>>, size |-> s, time |-> clock])
          IN IF FromLocal THEN local' = after /\ UNCHANGED bucket
                          ELSE bucket' = after /\ UNCHANGED local
    BY <1>7, Zenon DEF Edit
  <2>. DEFINE new == [data |-> <<"edit", edits>>, size |-> s, time |-> clock]
              after == IF s = 0 THEN Without(SrcStore, n) ELSE Put(SrcStore, n, new)
  <2>3. s \in Nat /\ n \in DOMAIN SrcStore
    BY TreesAssumption DEF Side
  <2>4. Object(new, clock + 1)
    BY <2>3 DEF Object
  <2>5. Objects(SrcStore, clock)
    BY DEF SrcStore
  <2>. HIDE DEF new
  <2>6. Objects(after, clock + 1)
    <3>1. clock + 1 \in Nat /\ clock <= clock + 1
      OBVIOUS
    <3>. QED
      BY <2>4, <2>5, <3>1, PutObjects, WithoutObjects
  <2>7. DOMAIN after \subseteq DOMAIN SrcStore
    BY <2>3 DEF Put, Over, Without
  <2>8. IF FromLocal THEN local' = after /\ bucket' = bucket
                     ELSE bucket' = after /\ local' = local
    BY <2>2 DEF new
  <2>. HIDE DEF after
  <2>9. /\ Objects(local', clock + 1) /\ Objects(bucket', clock + 1)
        /\ DOMAIN local' \subseteq DOMAIN local /\ DOMAIN bucket' \subseteq DOMAIN bucket
    <3>1. clock + 1 \in Nat /\ clock <= clock + 1
      OBVIOUS
    <3>. QED
      BY <2>6, <2>7, <2>8, <3>1, LaterObjects DEF SrcStore
  <2>10. cmd.tree => TreeNames'
    BY <2>1, <2>9 DEF TreeNames, Target, ToLocal
  <2>. QED
    BY <2>1, <2>9, <2>10
<1>8. CASE UNCHANGED vars
  BY <1>8 DEF vars, work, counters, TreeNames, Target, ToLocal, Objects, Object
<1>. QED
  BY <1>1, <1>2, <1>3, <1>4, <1>5, <1>6, <1>7, <1>8 DEF Next, Scan

LEMMA TypeInvariant == Spec => []TypeInv
  BY TypeInit, TypeStep, PTL DEF Spec

-----------------------------------------------------------------------------
(* Moves.                                                                    *)

\* One object that is moved to a file: where to, depends on what is there.
Lone == ~ cmd.tree /\ ToLocal
Source0 == AtFirst(FromLocal)
GoesTo(n) == IF cmd.tree THEN DstName(SrcRel(n)) ELSE SingleTarget

\* Separate, said of the names.
Apart ==
    \A n, p \in DOMAIN Source0 : Taken(n) /\ Taken(p) =>
        /\ n # p => GoesTo(n) # GoesTo(p)
        /\ cmd.way = "copy" => ~ Taken(GoesTo(n))

Arrived(n) ==
    \E m \in DOMAIN DstStore :
        DstStore[m].data = Source0[n].data /\ (~ Lone => m = GoesTo(n))
\* A transfer of a source that, where the destination is emptied first, is there.
ToMove(t) ==
    /\ t = [from |-> t.from, to |-> t.to]
    /\ Taken(t.from) /\ (~ Lone => t.to = GoesTo(t.from))
    /\ ToLocal /\ (cmd.tree \/ t.from \in DOMAIN Source0) => t.from \in DOMAIN SrcStore

Fresh == round = 0 => step = "idle" /\ local = first.local /\ bucket = first.bucket
SourcesAsAtFirst ==
    \A n \in DOMAIN SrcStore :
        Taken(n) => n \in DOMAIN Source0 /\ SrcStore[n] = Source0[n]
NothingLost == \A n \in DOMAIN Source0 : Taken(n) => n \in DOMAIN SrcStore \/ Arrived(n)
MovesLeft == (\A t \in todo : ToMove(t)) /\ (Lone => \A t, u \in todo : t = u)
UnderWay ==
    /\ step = "store" => ToMove(hold)
    /\ step = "remove" => /\ Taken(hold.from) /\ hold.from \in DOMAIN Source0
                          /\ Arrived(hold.from)
    /\ step \in {"store", "remove"} =>
        (\A t \in todo : t.from # hold.from) /\ (Lone => todo = {})

OneMove == cmd.op = "mv" /\ Apart /\ edits = 0 /\ ~ MovedTwice
MoveKept ==
    /\ dels = {} /\ Fresh
    /\ SourcesAsAtFirst /\ NothingLost /\ MovesLeft /\ UnderWay
MoveInv == OneMove => MoveKept

LEMMA ApartSeparate == Separate => Apart
<1>. SUFFICES ASSUME Separate, NEW n \in DOMAIN Source0, NEW p \in DOMAIN Source0,
                     Taken(n), Taken(p)
              PROVE  /\ n # p => GoesTo(n) # GoesTo(p)
                     /\ cmd.way = "copy" => ~ Taken(GoesTo(n))
  BY DEF Apart
<1>. DEFINE T(x) == [from |-> x, to |-> GoesTo(x)]
<1>1. \A x \in DOMAIN Source0 : Taken(x) => T(x) \in Moved
  <2>. SUFFICES ASSUME NEW x \in DOMAIN Source0, Taken(x)
                PROVE  T(x) \in TransfersFrom(Source0)
    BY DEF Moved, Source0
  <2>1. CASE cmd.tree
    BY <2>1 DEF TransfersFrom, TreeTransfers, GoesTo, Taken, Side
  <2>2. CASE ~ cmd.tree
    BY <2>2 DEF TransfersFrom, GoesTo, Taken
  <2>. QED
    BY <2>1, <2>2
<1>. QED
  BY <1>1 DEF Separate

\* What depends on the command line and on the beginning alone.
LEMMA MoveConstants ==
    ASSUME UNCHANGED <<cmd, first>>
    PROVE  /\ Source0' = Source0 /\ (Lone' <=> Lone)
           /\ (FromLocal' <=> FromLocal) /\ (ToLocal' <=> ToLocal)
           /\ \A n : Taken(n)' <=> Taken(n)
           /\ ~ Lone => \A n : GoesTo(n)' = GoesTo(n)
           /\ Apart' <=> Apart
<1>1. /\ Source0' = Source0 /\ (Lone' <=> Lone)
      /\ (FromLocal' <=> FromLocal) /\ (ToLocal' <=> ToLocal)
  BY DEF Source0, AtFirst, FromLocal, ToLocal, Lone
<1>2. \A n : Taken(n)' <=> Taken(n)
  BY DEF Taken, FromLocal, Included, SrcRel, SideRel
<1>3. ~ Lone => \A n : GoesTo(n)' = GoesTo(n)
  BY <1>1 DEF GoesTo, Lone, DstName, SrcRel, SideName, SideRel, FromLocal, ToLocal,
             SingleTarget, singleTargetKey
<1>4. Apart' <=> Apart
  <2>1. CASE Lone
    <3>1. Apart /\ Apart'
      BY <1>1, <1>2, <2>1 DEF Apart, Lone, Taken, ToLocal
    <3>. QED
      BY <3>1
  <2>2. CASE ~ Lone
    BY <1>1, <1>2, <1>3, <2>2 DEF Apart
  <2>. QED
    BY <2>1, <2>2
<1>. QED
  BY <1>1, <1>2, <1>3, <1>4

\* A transfer that empties its destination first loses nothing.
LEMMA EmptiedLater ==
    ASSUME Apart, SourcesAsAtFirst, NothingLost, ToLocal, NEW t, ToMove(t),
           NEW n \in DOMAIN Source0, Taken(n)
    PROVE  \/ n \in DOMAIN SrcStore
           \/ \E m \in DOMAIN DstStore \ {t.to} :
                 DstStore[m].data = Source0[n].data /\ (~ Lone => m = GoesTo(n))
<1>. SUFFICES ASSUME n \notin DOMAIN SrcStore
              PROVE  \E m \in DOMAIN DstStore \ {t.to} :
                       DstStore[m].data = Source0[n].data /\ (~ Lone => m = GoesTo(n))
  OBVIOUS
<1>1. PICK m \in DOMAIN DstStore : DstStore[m].data = Source0[n].data /\ (~ Lone => m = GoesTo(n))
  BY DEF NothingLost, Arrived
<1>2. n # t.from
  BY DEF ToMove
<1>3. ~ Lone
  BY <1>2 DEF ToMove, Taken, Lone
<1>4. t.from \in DOMAIN Source0
  BY <1>3 DEF ToMove, SourcesAsAtFirst, Lone
<1>5. m # t.to
  BY <1>1, <1>2, <1>3, <1>4 DEF Apart, ToMove
<1>. QED
  BY <1>1, <1>5

LEMMA MoveInit == Init => MoveInv
<1>. SUFFICES ASSUME Init
              PROVE  MoveInv
  OBVIOUS
<1>1. SrcStore = Source0
  BY DEF Init, SrcStore, Source0, AtFirst
<1>2. /\ todo = {} /\ dels = {} /\ step = "idle"
      /\ local = first.local /\ bucket = first.bucket
  BY DEF Init
<1>. QED
  BY <1>1, <1>2 DEF MoveInv, MoveKept, Fresh, SourcesAsAtFirst, NothingLost, MovesLeft, UnderWay

LEMMA MoveListing ==
    ASSUME TypeInv, OneMove, MoveKept, OneMove', Scan
    PROVE  MoveKept'
<1>. USE DEF MoveKept
<1>1. /\ UNCHANGED <<cmd, local, bucket, first>> /\ round' = round + 1 /\ round \in Nat
      /\ dels' = {} /\ step' \in {"idle", "next"} /\ step = "idle"
      /\ cmd.op = "mv" /\ Apart
      /\ todo' = {} \/ todo' = TransfersFrom(SrcStore)
  BY DEF TypeInv, OneMove, Scan, ListCopies, PlanSync, ListFails, Starts, Listed, Fail
<1>2. /\ Source0' = Source0 /\ (Lone' <=> Lone) /\ (FromLocal' <=> FromLocal)
      /\ (ToLocal' <=> ToLocal) /\ \A n : Taken(n)' <=> Taken(n)
      /\ ~ Lone => \A n : GoesTo(n)' = GoesTo(n)
  BY <1>1, MoveConstants
<1>3. SrcStore' = SrcStore /\ DstStore' = DstStore
  BY <1>1, <1>2 DEF SrcStore, DstStore
<1>4. SourcesAsAtFirst' /\ NothingLost'
  BY <1>2, <1>3 DEF SourcesAsAtFirst, NothingLost, Arrived
<1>5. Fresh' /\ UnderWay'
  BY <1>1 DEF Fresh, UnderWay
<1>6. MovesLeft'
  <2>1. CASE todo' = {}
    BY <2>1 DEF MovesLeft
  <2>2. CASE todo' = TransfersFrom(SrcStore) /\ cmd.tree
    <3>1. \A t \in todo' : ToMove(t)
      <4>. SUFFICES ASSUME NEW t \in todo'
                    PROVE  ToMove(t)
        OBVIOUS
      <4>1. PICK n \in Side(SrcStore, FromLocal, cmd.src) :
                Included(SrcRel(n)) /\ t = [from |-> n, to |-> DstName(SrcRel(n))]
        BY <2>2 DEF TransfersFrom, TreeTransfers
      <4>2. Taken(n) /\ n \in DOMAIN SrcStore
        BY <2>2, <4>1 DEF Taken, Side
      <4>. QED
        BY <2>2, <4>1, <4>2 DEF ToMove, GoesTo, Lone
    <3>2. ~ Lone
      BY <2>2 DEF Lone
    <3>. QED
      BY <1>1, <1>2, <1>3, <3>1, <3>2 DEF MovesLeft, ToMove
  <2>3. CASE todo' = TransfersFrom(SrcStore) /\ ~ cmd.tree
    <3>1. todo' = {[from |-> cmd.src, to |-> SingleTarget]}
      BY <2>3 DEF TransfersFrom
    <3>2. Lone => SrcStore = Source0
      <4>1. SUFFICES ASSUME Lone
                     PROVE  local = first.local /\ bucket = first.bucket
        BY DEF SrcStore, Source0, AtFirst
      <4>2. ~ (round + 1 > 1)
        BY <1>1, <1>2, <4>1 DEF OneMove, MovedTwice, Lone
      <4>3. round = 0
        BY <1>1, <4>2
      <4>. QED
        BY <4>3 DEF Fresh
    <3>3. \A t \in todo' : ToMove(t)
      BY <2>3, <3>1, <3>2 DEF ToMove, Taken, GoesTo, Lone
    <3>. QED
      BY <1>1, <1>2, <1>3, <3>1, <3>3 DEF MovesLeft, ToMove
  <2>. QED
    BY <1>1, <2>1, <2>2, <2>3
<1>. QED
  BY <1>1, <1>4, <1>5, <1>6

LEMMA MoveEnding ==
    ASSUME OneMove, MoveKept, OneMove', Preview \/ Finish
    PROVE  MoveKept'
<1>1. /\ UNCHANGED <<cmd, local, bucket, first, round>> /\ step # "idle" /\ step' = "idle"
      /\ todo' = {} /\ dels' = {}
  BY DEF Preview, Finish, Running, counters, MoveKept
<1>2. /\ Source0' = Source0 /\ (Lone' <=> Lone) /\ (FromLocal' <=> FromLocal)
      /\ (ToLocal' <=> ToLocal) /\ \A n : Taken(n)' <=> Taken(n)
      /\ ~ Lone => \A n : GoesTo(n)' = GoesTo(n)
  BY <1>1, MoveConstants
<1>3. SrcStore' = SrcStore /\ DstStore' = DstStore
  BY <1>1, <1>2 DEF SrcStore, DstStore
<1>4. SourcesAsAtFirst' /\ NothingLost'
  BY <1>2, <1>3 DEF SourcesAsAtFirst, NothingLost, Arrived, MoveKept
<1>. QED
  BY <1>1, <1>4 DEF MoveKept, Fresh, UnderWay, MovesLeft

LEMMA MoveBegin ==
    ASSUME TypeInv, OneMove, MoveKept, OneMove', Begin
    PROVE  MoveKept'
<1>. USE DEF MoveKept
<1>1. /\ UNCHANGED <<cmd, bucket, first, round>> /\ step = "next" /\ Apart
  BY DEF Begin, Running, counters, OneMove
<1>2. /\ Source0' = Source0 /\ (Lone' <=> Lone) /\ (FromLocal' <=> FromLocal)
      /\ (ToLocal' <=> ToLocal) /\ \A n : Taken(n)' <=> Taken(n)
      /\ ~ Lone => \A n : GoesTo(n)' = GoesTo(n)
  BY <1>1, MoveConstants
<1>3. CASE Fail /\ UNCHANGED local
  <2>1. SrcStore' = SrcStore /\ DstStore' = DstStore
    BY <1>1, <1>2, <1>3 DEF SrcStore, DstStore
  <2>2. SourcesAsAtFirst' /\ NothingLost'
    BY <1>2, <2>1 DEF SourcesAsAtFirst, NothingLost, Arrived
  <2>. QED
    BY <1>1, <1>3, <2>2 DEF Fail, Fresh, UnderWay, MovesLeft
<1>4. CASE ~ (Fail /\ UNCHANGED local)
  <2>. DEFINE empty == [data |-> <<>>, size |-> 0, time |-> clock]
  <2>1. PICK t \in todo :
            /\ hold' = t /\ todo' = todo \ {t} /\ step' = "store" /\ dels' = dels
            /\ local' = IF ToLocal THEN Put(local, t.to, empty) ELSE local
    BY <1>4 DEF Begin
  <2>. HIDE DEF empty
  <2>2. ~ (FromLocal /\ ToLocal)
    BY CommandLine DEF TypeInv
  <2>3. SrcStore' = SrcStore
    BY <1>1, <1>2, <2>1, <2>2 DEF SrcStore
  <2>4. ToMove(t) /\ \A u \in todo : ToMove(u)
    BY DEF MovesLeft
  <2>5. NothingLost'
    <3>. SUFFICES ASSUME NEW n \in DOMAIN Source0, Taken(n), n \notin DOMAIN SrcStore
                  PROVE  Arrived(n)'
      BY <1>2, <2>3 DEF NothingLost
    <3>1. CASE ToLocal
      <4>1. PICK m \in DOMAIN DstStore \ {t.to} :
                DstStore[m].data = Source0[n].data /\ (~ Lone => m = GoesTo(n))
        BY <1>1, <2>4, <3>1, EmptiedLater
      <4>2. m \in DOMAIN DstStore' /\ DstStore'[m] = DstStore[m]
        BY <1>2, <2>1, <3>1, <4>1 DEF DstStore, Put, Over
      <4>. QED
        BY <1>2, <4>1, <4>2 DEF Arrived
    <3>2. CASE ~ ToLocal
      <4>1. DstStore' = DstStore
        BY <1>1, <1>2, <3>2 DEF DstStore
      <4>. QED
        BY <1>2, <4>1 DEF NothingLost, Arrived
    <3>. QED
      BY <3>1, <3>2
  <2>6. SourcesAsAtFirst'
    BY <1>2, <2>3 DEF SourcesAsAtFirst
  <2>7. MovesLeft' /\ ToMove(hold)'
    BY <1>1, <1>2, <2>1, <2>3, <2>4 DEF MovesLeft, ToMove
  <2>8. \A u \in todo' : u.from # hold'.from
    <3>. SUFFICES ASSUME NEW u \in todo, u # t
                  PROVE  u.from # t.from
      BY <2>1
    <3>1. CASE Lone
      BY <3>1 DEF MovesLeft
    <3>2. CASE ~ Lone
      BY <2>4, <3>2 DEF ToMove
    <3>. QED
      BY <3>1, <3>2
  <2>9. Lone' => todo' = {}
    BY <1>2, <2>1 DEF MovesLeft
  <2>10. UnderWay'
    BY <2>1, <2>7, <2>8, <2>9 DEF UnderWay
  <2>11. Fresh'
    BY <1>1 DEF Fresh
  <2>. QED
    BY <2>1, <2>5, <2>6, <2>7, <2>10, <2>11
<1>. QED
  BY <1>3, <1>4

LEMMA MoveStore ==
    ASSUME TypeInv, OneMove, MoveKept, OneMove', Store
    PROVE  MoveKept'
<1>. USE DEF MoveKept
<1>1. /\ UNCHANGED <<cmd, first, round>> /\ step = "store" /\ Apart /\ cmd.op = "mv"
  BY DEF Store, Running, OneMove
<1>2. /\ Source0' = Source0 /\ (Lone' <=> Lone) /\ (FromLocal' <=> FromLocal)
      /\ (ToLocal' <=> ToLocal) /\ \A n : Taken(n)' <=> Taken(n)
      /\ ~ Lone => \A n : GoesTo(n)' = GoesTo(n)
  BY <1>1, MoveConstants
<1>3. /\ ~ (FromLocal /\ ToLocal) /\ cmd.way \in Ways
      /\ cmd.way = "copy" <=> ~ FromLocal /\ ~ ToLocal
  BY CommandLine DEF TypeInv
<1>4. /\ ToMove(hold) /\ \A t \in todo : ToMove(t) /\ t.from # hold.from
      /\ Lone => todo = {}
  BY <1>1 DEF UnderWay, MovesLeft
<1>5. Fresh'
  BY <1>1 DEF Fresh
<1>6. CASE NotStored /\ Fail
  <2>1. SrcStore' = SrcStore
    BY <1>2, <1>3, <1>6 DEF NotStored, SrcStore
  <2>2. NothingLost'
    <3>. SUFFICES ASSUME NEW n \in DOMAIN Source0, Taken(n), n \notin DOMAIN SrcStore
                  PROVE  Arrived(n)'
      BY <1>2, <2>1 DEF NothingLost
    <3>1. CASE ToLocal
      <4>1. PICK m \in DOMAIN DstStore \ {hold.to} :
                DstStore[m].data = Source0[n].data /\ (~ Lone => m = GoesTo(n))
        BY <1>1, <1>4, <3>1, EmptiedLater
      <4>2. m \in DOMAIN DstStore' /\ DstStore'[m] = DstStore[m]
        BY <1>2, <1>6, <3>1, <4>1 DEF DstStore, NotStored, Without
      <4>. QED
        BY <1>2, <4>1, <4>2 DEF Arrived
    <3>2. CASE ~ ToLocal
      <4>1. DstStore' = DstStore
        BY <1>2, <1>6, <3>2 DEF DstStore, NotStored
      <4>. QED
        BY <1>2, <4>1 DEF NothingLost, Arrived
    <3>. QED
      BY <3>1, <3>2
  <2>3. SourcesAsAtFirst'
    BY <1>2, <2>1 DEF SourcesAsAtFirst
  <2>. QED
    BY <1>5, <1>6, <2>2, <2>3 DEF Fail, UnderWay, MovesLeft
<1>7. CASE /\ hold.from \in DOMAIN SrcStore
           /\ Uploaded \/ Downloaded \/ Copied
           /\ Landed /\ UNCHANGED <<todo, dels, hold>>
  <2>. PICK h : h = hold.from
    OBVIOUS
  <2>. DEFINE o == Stored(h)
  <2>1. h \in DOMAIN Source0 /\ SrcStore[h] = Source0[h] /\ Taken(h)
    BY <1>4, <1>7 DEF ToMove, SourcesAsAtFirst
  <2>2. o.data = Source0[h].data
    <3>1. Objects(SrcStore, clock) /\ clock \in Nat
      BY DEF TypeInv, SrcStore
    <3>. QED
      BY <1>7, <2>1, <3>1, StoredIs
  <2>3. DstStore' = Put(DstStore, hold.to, o)
    BY <1>2, <1>3, <1>7 DEF Uploaded, Downloaded, Copied, DstStore, FromLocal, ToLocal
  <2>4. /\ cmd.way # "copy" => SrcStore' = SrcStore
        /\ cmd.way = "copy" => SrcStore' = Put(SrcStore, hold.to, o) /\ ~ Taken(hold.to)
    <3>1. cmd.way # "copy" => SrcStore' = SrcStore
      BY <1>2, <1>3, <1>7 DEF Uploaded, Downloaded, Copied, SrcStore
    <3>2. cmd.way = "copy" => SrcStore' = Put(SrcStore, hold.to, o)
      BY <1>2, <1>3, <1>7 DEF Uploaded, Downloaded, Copied, SrcStore
    <3>3. cmd.way = "copy" => ~ Taken(hold.to)
      BY <1>1, <1>3, <1>4, <2>1 DEF Apart, ToMove, Lone
    <3>. QED
      BY <3>1, <3>2, <3>3
  <2>. HIDE DEF o
  <2>5. /\ DOMAIN SrcStore \subseteq DOMAIN SrcStore'
        /\ \A n \in DOMAIN SrcStore' :
              Taken(n) => n \in DOMAIN SrcStore /\ SrcStore'[n] = SrcStore[n]
    BY <2>4 DEF Put, Over
  <2>6. SourcesAsAtFirst'
    BY <1>2, <2>5 DEF SourcesAsAtFirst
  <2>7. hold.to \in DOMAIN DstStore' /\ DstStore'[hold.to].data = Source0[h].data
    BY <2>2, <2>3 DEF Put, Over
  <2>8. Arrived(h)'
    BY <1>2, <1>4, <2>7 DEF Arrived, ToMove
  <2>9. NothingLost'
    <3>. SUFFICES ASSUME NEW n \in DOMAIN Source0, Taken(n), n \notin DOMAIN SrcStore'
                  PROVE  Arrived(n)'
      BY <1>2 DEF NothingLost
    <3>1. n \notin DOMAIN SrcStore
      BY <2>5
    <3>2. PICK m \in DOMAIN DstStore :
              DstStore[m].data = Source0[n].data /\ (~ Lone => m = GoesTo(n))
      BY <3>1 DEF NothingLost, Arrived
    <3>3. CASE m = hold.to
      <4>1. n = h
        <5>1. CASE Lone
          BY <2>1, <5>1 DEF Lone, Taken
        <5>2. CASE ~ Lone
          BY <1>1, <1>4, <2>1, <3>2, <3>3, <5>2 DEF Apart, ToMove
        <5>. QED
          BY <5>1, <5>2
      <4>. QED
        BY <2>8, <4>1
    <3>4. CASE m # hold.to
      <4>1. m \in DOMAIN DstStore' /\ DstStore'[m] = DstStore[m]
        BY <2>3, <3>4 DEF Put, Over
      <4>. QED
        BY <1>2, <3>2, <4>1 DEF Arrived
    <3>. QED
      BY <3>3, <3>4
  <2>10. step' = "remove"
    BY <1>1, <1>7 DEF Landed
  <2>11. MovesLeft'
    BY <1>1, <1>2, <1>4, <1>7, <2>5 DEF MovesLeft, ToMove
  <2>12. UnderWay'
    BY <1>2, <1>4, <1>7, <2>1, <2>8, <2>10 DEF UnderWay
  <2>. QED
    BY <1>5, <1>7, <2>6, <2>9, <2>11, <2>12
<1>. QED
  BY <1>6, <1>7 DEF Store

LEMMA MoveRemove ==
    ASSUME TypeInv, OneMove, MoveKept, OneMove',
           RemoveFile \/ RemoveDownloaded \/ RemoveCopied
    PROVE  MoveKept'
<1>. USE DEF MoveKept
<1>1. /\ UNCHANGED <<cmd, first, round>> /\ step = "remove" /\ Apart
      /\ step' \in {"idle", "next"} /\ todo' \subseteq todo /\ dels' = {}
  BY DEF RemoveFile, RemoveDownloaded, RemoveCopied, RemoveObject, Running, Fail, OneMove
<1>2. /\ Source0' = Source0 /\ (Lone' <=> Lone) /\ (FromLocal' <=> FromLocal)
      /\ (ToLocal' <=> ToLocal) /\ \A n : Taken(n)' <=> Taken(n)
      /\ ~ Lone => \A n : GoesTo(n)' = GoesTo(n)
  BY <1>1, MoveConstants
<1>3. /\ ~ (FromLocal /\ ToLocal)
      /\ cmd.way = "copy" <=> ~ FromLocal /\ ~ ToLocal
  BY CommandLine DEF TypeInv
<1>. PICK h : h = hold.from
  OBVIOUS
<1>4. /\ Taken(h) /\ h \in DOMAIN Source0 /\ Arrived(h)
      /\ \A t \in todo : ToMove(t) /\ t.from # h
  BY <1>1 DEF UnderWay, MovesLeft
<1>5. /\ SrcStore' \in {SrcStore, Without(SrcStore, h)}
      /\ cmd.way # "copy" => DstStore' = DstStore
      /\ cmd.way = "copy" => DstStore' \in {DstStore, Without(DstStore, h)}
  <2>1. CASE RemoveFile
    BY <1>2, <1>3, <2>1 DEF RemoveFile, SrcStore, DstStore
  <2>2. CASE RemoveDownloaded
    BY <1>2, <1>3, <2>2 DEF RemoveDownloaded, RemoveObject, SrcStore, DstStore
  <2>3. CASE RemoveCopied
    BY <1>2, <1>3, <2>3 DEF RemoveCopied, RemoveObject, SrcStore, DstStore
  <2>. QED
    BY <2>1, <2>2, <2>3
<1>6. /\ DOMAIN SrcStore' \subseteq DOMAIN SrcStore
      /\ \A n \in DOMAIN SrcStore' : SrcStore'[n] = SrcStore[n]
      /\ \A n \in DOMAIN SrcStore : n # h => n \in DOMAIN SrcStore'
  BY <1>5 DEF Without
<1>7. \A n \in DOMAIN Source0 : Taken(n) /\ Arrived(n) => Arrived(n)'
  <2>. SUFFICES ASSUME NEW n \in DOMAIN Source0, Taken(n), Arrived(n)
                PROVE  Arrived(n)'
    OBVIOUS
  <2>1. PICK m \in DOMAIN DstStore :
            DstStore[m].data = Source0[n].data /\ (~ Lone => m = GoesTo(n))
    BY DEF Arrived
  <2>2. m \in DOMAIN DstStore' /\ DstStore'[m] = DstStore[m]
    <3>1. CASE cmd.way = "copy"
      <4>1. m # h
        BY <1>1, <1>3, <1>4, <2>1, <3>1 DEF Apart, Lone
      <4>. QED
        BY <1>5, <2>1, <3>1, <4>1 DEF Without
    <3>2. CASE cmd.way # "copy"
      BY <1>5, <3>2
    <3>. QED
      BY <3>1, <3>2
  <2>. QED
    BY <1>2, <2>1, <2>2 DEF Arrived
<1>8. NothingLost'
  BY <1>2, <1>4, <1>6, <1>7 DEF NothingLost
<1>9. SourcesAsAtFirst'
  BY <1>2, <1>6 DEF SourcesAsAtFirst
<1>10. MovesLeft'
  <2>1. \A t \in todo' : ToMove(t)'
    BY <1>1, <1>2, <1>4, <1>6 DEF ToMove
  <2>. QED
    BY <1>1, <1>2, <2>1 DEF MovesLeft
<1>11. UnderWay' /\ Fresh'
  BY <1>1 DEF UnderWay, Fresh
<1>. QED
  BY <1>1, <1>8, <1>9, <1>10, <1>11

LEMMA MoveStep == TypeInv /\ MoveInv /\ [Next]_vars => MoveInv'
<1>. SUFFICES ASSUME TypeInv, MoveInv, [Next]_vars, OneMove'
              PROVE  MoveKept'
  BY DEF MoveInv
<1>1. cmd' = cmd /\ first' = first
  BY CommandStays
<1>2. /\ edits' = edits \/ edits' = edits + 1
      /\ round' = round \/ round' = round + 1
  BY DEF Next, Scan, ListCopies, PlanSync, ListFails, Starts, Preview, Begin, Store,
         RemoveFile, RemoveDownloaded, RemoveCopied, RemoveObject, DeleteFile, DeleteObject,
         Finish, Edit, vars, counters
<1>3. edits = 0 /\ edits' = 0 /\ (~ (round' > 1) => ~ (round > 1))
  BY <1>2 DEF OneMove, TypeInv
<1>4. (Apart' <=> Apart) /\ (ToLocal' <=> ToLocal)
  BY <1>1, MoveConstants
<1>5. OneMove
  BY <1>1, <1>3, <1>4 DEF OneMove, MovedTwice
<1>6. MoveKept
  BY <1>5 DEF MoveInv
<1>7. CASE Edit
  BY <1>3, <1>7 DEF Edit
<1>8. CASE DeleteFile \/ DeleteObject
  BY <1>6, <1>8 DEF MoveKept, DeleteFile, DeleteObject
<1>9. CASE UNCHANGED vars
  <2>1. /\ Source0' = Source0 /\ (Lone' <=> Lone)
        /\ (ToLocal' <=> ToLocal) /\ \A n : Taken(n)' <=> Taken(n)
        /\ ~ Lone => \A n : GoesTo(n)' = GoesTo(n)
    BY <1>1, MoveConstants
  <2>2. SrcStore' = SrcStore /\ DstStore' = DstStore
    BY <1>9 DEF vars, SrcStore, DstStore, FromLocal, ToLocal
  <2>3. SourcesAsAtFirst' /\ NothingLost'
    BY <1>6, <2>1, <2>2 DEF MoveKept, SourcesAsAtFirst, NothingLost, Arrived
  <2>4. MovesLeft' /\ (ToMove(hold) => ToMove(hold)')
    BY <1>6, <1>9, <2>1, <2>2 DEF MoveKept, MovesLeft, ToMove, vars, work
  <2>5. UnderWay'
    BY <1>6, <1>9, <2>1, <2>2, <2>4 DEF MoveKept, UnderWay, Arrived, vars, work
  <2>6. dels' = {} /\ Fresh'
    BY <1>6, <1>9 DEF MoveKept, Fresh, vars, work, counters
  <2>. QED
    BY <2>3, <2>4, <2>5, <2>6 DEF MoveKept
<1>. QED
  BY <1>5, <1>6, <1>7, <1>8, <1>9, MoveListing, MoveEnding, MoveBegin, MoveStore, MoveRemove
     DEF Next

LEMMA MoveInvariant == Spec => []MoveInv
<1>1. Init => MoveInv
  BY MoveInit
<1>2. TypeInv /\ MoveInv /\ [Next]_vars => MoveInv'
  BY MoveStep
<1>. QED
  BY <1>1, <1>2, TypeInvariant, PTL DEF Spec

\* Every file that was to be moved is whole on one of the two sides, at every moment
\* of every run of the command (mv.go).
THEOREM NoFileLost == Spec => []MoveLosesNothing
<1>1. MoveInv => MoveLosesNothing
  <2>. SUFFICES ASSUME MoveInv, cmd.op = "mv", Separate, edits = 0, ~ MovedTwice,
                       NEW t \in Moved
                PROVE  AtFirst(FromLocal)[t.from].data \in Held
    BY DEF MoveLosesNothing
  <2>1. SourcesAsAtFirst /\ NothingLost
    BY ApartSeparate DEF MoveInv, OneMove, MoveKept
  <2>2. t.from \in DOMAIN Source0 /\ Taken(t.from)
    <3>1. CASE cmd.tree
      BY <3>1 DEF Moved, Source0, TransfersFrom, TreeTransfers, Taken, Side
    <3>2. CASE ~ cmd.tree
      BY <3>2 DEF Moved, Source0, TransfersFrom, Taken
    <3>. QED
      BY <3>1, <3>2
  <2>3. CASE t.from \in DOMAIN SrcStore
    <3>1. SrcStore[t.from].data = Source0[t.from].data
      BY <2>1, <2>2, <2>3 DEF SourcesAsAtFirst
    <3>. QED
      BY <2>3, <3>1 DEF SrcStore, Held, Source0
  <2>4. CASE Arrived(t.from)
    <3>1. PICK m \in DOMAIN DstStore : DstStore[m].data = Source0[t.from].data
      BY <2>4 DEF Arrived
    <3>. QED
      BY <3>1 DEF DstStore, Held, Source0
  <2>. QED
    BY <2>1, <2>2, <2>3, <2>4 DEF NothingLost
<1>. QED
  BY <1>1, MoveInvariant, PTL

-----------------------------------------------------------------------------
(* What a command is asked for.                                              *)

UnderSrc(n) == FromLocal \/ StartsWith(n, cmd.src)
UnderDst(n) == ToLocal \/ StartsWith(n, cmd.dst)
DstRel(n) == SideRel(ToLocal, cmd.dst, n)

Stores(n) == UnderDst(n) /\ Included(DstRel(n))
AskedFor(t) == Stores(t.to) /\ (cmd.op = "mv" => UnderSrc(t.from) /\ Included(SrcRel(t.from)))

AskedInv ==
    cmd.tree /\ (ToLocal => NoMarkers) =>
        /\ \A t \in todo : AskedFor(t)
        /\ \A n \in dels : Stores(n)
        /\ step \in {"store", "remove"} => AskedFor(hold)
        /\ step = "remove" => cmd.op = "mv"

\* What is stored under a rel is of this rel.
LEMMA StoredUnder ==
    ASSUME TypeInv, NEW r \in Seq(Tokens), ToLocal => ~ EndsInSlash(r)
    PROVE  UnderDst(DstName(r)) /\ DstRel(DstName(r)) = r
<1>1. cmd.dst \in Seq(Tokens)
  BY CommandLine DEF TypeInv
<1>2. CASE ToLocal
  BY <1>2, PathOfRel DEF UnderDst, DstName, DstRel, SideName, SideRel
<1>3. CASE ~ ToLocal
  BY <1>1, <1>3, JoinedName DEF UnderDst, DstName, DstRel, SideName, SideRel
<1>. QED
  BY <1>2, <1>3

\* The rels that a listing finds, when no marker is among them.
LEMMA ListedRel ==
    ASSUME TypeInv, cmd.tree, Starts, (ToLocal => NoMarkers)',
           NEW n \in Side(SrcStore, FromLocal, cmd.src)
    PROVE  UnderDst(DstName(SrcRel(n))) /\ DstRel(DstName(SrcRel(n))) = SrcRel(n)
<1>1. SrcRel(n) \in Seq(Tokens)
  BY SourceRel
<1>2. ToLocal => ~ EndsInSlash(SrcRel(n))
  <2>. SUFFICES ASSUME ToLocal
                PROVE  ~ EndsInSlash(SrcRel(n))
    OBVIOUS
  <2>1. before'.bucket = bucket /\ cmd' = cmd
    BY DEF Starts
  <2>2. ~ FromLocal /\ SrcStore = bucket
    BY CommandLine DEF TypeInv, SrcStore
  <2>3. NoMarkers'
    BY <2>1 DEF ToLocal
  <2>4. n \in Side(before'.bucket, FALSE, cmd.src)
    BY <2>1, <2>2 DEF Side
  <2>5. ~ EndsInSlash(RelKey(cmd'.src, n))
    BY <2>1, <2>3, <2>4 DEF NoMarkers
  <2>. QED
    BY <2>1, <2>2, <2>5 DEF SrcRel, SideRel
<1>. QED
  BY <1>1, <1>2, StoredUnder

LEMMA AskedInit == Init => AskedInv
  BY DEF Init, AskedInv

LEMMA AskedStep == TypeInv /\ AskedInv /\ [Next]_vars => AskedInv'
<1>. SUFFICES ASSUME TypeInv, AskedInv, [Next]_vars, cmd.tree, (ToLocal => NoMarkers)'
              PROVE  /\ \A t \in todo' : AskedFor(t)
                     /\ \A n \in dels' : Stores(n)
                     /\ step' \in {"store", "remove"} => AskedFor(hold')
                     /\ step' = "remove" => cmd.op = "mv"
  BY CommandStays DEF AskedInv, AskedFor, Stores, UnderDst, UnderSrc, DstRel, SrcRel, SideRel,
         Included, FromLocal, ToLocal
<1>1. CASE ListCopies
  <2>1. Starts /\ todo' = TreeTransfers(SrcStore) /\ dels' = {} /\ step' = "next"
    BY <1>1 DEF ListCopies, Listed, TransfersFrom
  <2>2. ASSUME NEW t \in todo'
        PROVE  AskedFor(t)
    <3>1. PICK n \in Side(SrcStore, FromLocal, cmd.src) :
              Included(SrcRel(n)) /\ t = [from |-> n, to |-> DstName(SrcRel(n))]
      BY <2>1 DEF TreeTransfers
    <3>2. UnderSrc(n)
      BY DEF Side, UnderSrc
    <3>. QED
      BY <2>1, <3>1, <3>2, ListedRel DEF AskedFor, Stores
  <2>. QED
    BY <2>1, <2>2
<1>2. CASE PlanSync
  <2>1. /\ Starts /\ dels' = {DstName(r) : r \in ToDelete} /\ step' = "next"
        /\ cmd.op = "sync"
        /\ \E index \in Index(DstEntries) :
              todo' = {[from |-> SrcName(r), to |-> DstName(r)] : r \in ToCopy(index)}
    BY <1>2 DEF PlanSync, Listed
  <2>2. ASSUME NEW t \in todo'
        PROVE  AskedFor(t)
    <3>1. PICK index \in Index(DstEntries) :
              todo' = {[from |-> SrcName(r), to |-> DstName(r)] : r \in ToCopy(index)}
      BY <2>1
    <3>2. PICK r \in ToCopy(index) : t = [from |-> SrcName(r), to |-> DstName(r)]
      BY <3>1
    <3>3. PICK e \in SrcEntries : r = e.rel
      BY DEF ToCopy
    <3>4. PICK n \in Side(SrcStore, FromLocal, cmd.src) : e.rel = SrcRel(n) /\ Included(e.rel)
      BY EntryOfSource
    <3>. QED
      BY <2>1, <3>2, <3>3, <3>4, ListedRel DEF AskedFor, Stores
  <2>3. ASSUME NEW d \in dels'
        PROVE  Stores(d)
    <3>1. PICK r \in ToDelete : d = DstName(r)
      BY <2>1
    <3>2. PICK e \in DstEntries : r = e.rel
      BY <3>1 DEF ToDelete, Rels
    <3>3. PICK n \in Side(DstStore, ToLocal, cmd.dst) :
              e.rel = SideRel(ToLocal, cmd.dst, n) /\ Included(e.rel)
      BY EntryOfDestination
    <3>4. r \in Seq(Tokens) /\ (ToLocal => ~ EndsInSlash(r))
      <4>1. n \in Seq(Tokens) /\ (ToLocal => ~ EndsInSlash(n))
        BY DEF TypeInv, TreeNames, Side, DstStore
      <4>2. cmd.dst \in Seq(Tokens) /\ (ToLocal \/ StartsWith(n, cmd.dst))
        BY CommandLine DEF TypeInv, Side
      <4>. QED
        BY <3>2, <3>3, <4>1, <4>2, RelOfName DEF SideRel
    <3>. QED
      BY <3>1, <3>2, <3>3, <3>4, StoredUnder DEF Stores
  <2>. QED
    BY <2>1, <2>2, <2>3
<1>3. CASE ~ Scan
  <2>1. before' = before /\ cmd' = cmd
    BY <1>3 DEF Next, Preview, Begin, Store, RemoveFile, RemoveDownloaded, RemoveCopied,
                RemoveObject, DeleteFile, DeleteObject, Finish, Edit, vars
  <2>2. ToLocal => NoMarkers
    BY <2>1 DEF ToLocal, NoMarkers
  <2>3. /\ \A t \in todo : AskedFor(t)
        /\ \A n \in dels : Stores(n)
        /\ step \in {"store", "remove"} => AskedFor(hold)
        /\ step = "remove" => cmd.op = "mv"
    BY <2>2 DEF AskedInv
  <2>4. todo' \subseteq todo /\ dels' \subseteq dels
    BY <1>3 DEF Next, Preview, Begin, Store, RemoveFile, RemoveDownloaded, RemoveCopied,
                RemoveObject, DeleteFile, DeleteObject, Finish, Edit, vars, Fail, work
  <2>5. /\ step' \in {"store", "remove"} => AskedFor(hold')
        /\ step' = "remove" => cmd.op = "mv"
    <3>1. CASE Begin
      BY <2>3, <3>1 DEF Begin, Fail
    <3>2. CASE Store
      BY <2>3, <3>2 DEF Store, Fail, Landed
    <3>3. CASE RemoveFile \/ RemoveDownloaded \/ RemoveCopied
      BY <3>3 DEF RemoveFile, RemoveDownloaded, RemoveCopied, RemoveObject, Fail
    <3>4. CASE Preview \/ DeleteFile \/ DeleteObject \/ Finish
      BY <3>4 DEF Preview, DeleteFile, DeleteObject, Deleting, Finish, Fail
    <3>5. CASE Edit \/ UNCHANGED vars
      BY <2>3, <3>5 DEF Edit, vars, work
    <3>. QED
      BY <1>3, <3>1, <3>2, <3>3, <3>4, <3>5 DEF Next
  <2>. QED
    BY <2>3, <2>4, <2>5
<1>4. CASE ListFails
  BY <1>4 DEF ListFails, Fail
<1>. QED
  BY <1>1, <1>2, <1>3, <1>4 DEF Scan

LEMMA AskedInvariant == Spec => []AskedInv
  BY AskedInit, AskedStep, TypeInvariant, PTL DEF Spec

\* No name is under both of two prefixes none of which is within the other.
LEMMA SidesDisjoint ==
    ASSUME TypeInv, cmd.tree, Disjoint, cmd.way = "copy",
           NEW n \in Seq(Tokens), UnderSrc(n)
    PROVE  ~ UnderDst(n)
<1>1. /\ cmd.src \in Seq(Tokens) /\ cmd.dst \in Seq(Tokens)
      /\ ~ FromLocal /\ ~ ToLocal
  BY CommandLine DEF TypeInv
<1>2. StartsWith(n, cmd.src)
  BY <1>1 DEF UnderSrc
<1>3. UnderDst(n) => StartsWith(n, cmd.dst)
  BY <1>1 DEF UnderDst
<1>. QED
  BY <1>1, <1>2, <1>3, PrefixesCompare DEF Disjoint

\* Of a store, all but one name is kept.
KeptBut(x, old, new) == \A n \in DOMAIN old : n # x => n \in DOMAIN new /\ new[n] = old[n]

\* Every step that changes a store changes it at one name that the command is asked for.
Asks(x) ==
    \/ /\ Stores(x) /\ KeptBut(x, DstStore, DstStore')
       /\ cmd.way = "copy" \/ SrcStore' = SrcStore
    \/ /\ UnderSrc(x) /\ Included(SrcRel(x)) /\ KeptBut(x, SrcStore, SrcStore')
       /\ cmd.way = "copy" \/ DstStore' = DstStore

LEMMA StepAsks ==
    ASSUME TypeInv, AskedInv, [Next]_vars, cmd.tree, ToLocal => NoMarkers,
           step' # step \/ hold' # hold \/ dels' # dels
    PROVE  \/ UNCHANGED <<local, bucket>>
           \/ \E x : Asks(x)
<1>1. cmd' = cmd
  BY CommandStays
<1>2. /\ \A t \in todo : AskedFor(t)
      /\ \A n \in dels : Stores(n)
      /\ step \in {"store", "remove"} => AskedFor(hold)
      /\ step = "remove" => cmd.op = "mv"
  BY DEF AskedInv
<1>3. /\ ~ (FromLocal /\ ToLocal) /\ (cmd.way = "copy" <=> ~ FromLocal /\ ~ ToLocal)
      /\ (FromLocal' <=> FromLocal) /\ (ToLocal' <=> ToLocal)
  BY <1>1, CommandLine DEF TypeInv, FromLocal, ToLocal
<1>. SUFFICES ASSUME ~ UNCHANGED <<local, bucket>>
              PROVE  \E x : Asks(x)
  OBVIOUS
<1>4. CASE Begin
  <2>1. PICK t \in todo :
            /\ ToLocal /\ bucket' = bucket
            /\ local' = Put(local, t.to, [data |-> <<>>, size |-> 0, time |-> clock])
    BY <1>4 DEF Begin
  <2>2. KeptBut(t.to, DstStore, DstStore') /\ SrcStore' = SrcStore
    BY <1>3, <2>1 DEF KeptBut, DstStore, SrcStore, Put, Over
  <2>. QED
    BY <1>2, <2>1, <2>2 DEF Asks, AskedFor
<1>5. CASE Store
  <2>1. /\ step = "store"
        /\ Uploaded \/ Downloaded \/ Copied \/ NotStored
    BY <1>5 DEF Store
  <2>2. CASE Uploaded \/ Downloaded \/ Copied
    <3>1. /\ DstStore' = Put(DstStore, hold.to, Stored(hold.from))
          /\ cmd.way = "copy" \/ SrcStore' = SrcStore
      BY <1>3, <2>2 DEF Uploaded, Downloaded, Copied, DstStore, SrcStore
    <3>2. KeptBut(hold.to, DstStore, DstStore')
      BY <3>1 DEF KeptBut, Put, Over
    <3>. QED
      BY <1>2, <2>1, <3>1, <3>2 DEF Asks, AskedFor
  <2>3. CASE NotStored
    <3>1. ToLocal /\ DstStore' = Without(DstStore, hold.to) /\ SrcStore' = SrcStore
      BY <1>3, <2>3 DEF NotStored, DstStore, SrcStore
    <3>2. KeptBut(hold.to, DstStore, DstStore')
      BY <3>1 DEF KeptBut, Without
    <3>. QED
      BY <1>2, <2>1, <3>1, <3>2 DEF Asks, AskedFor
  <2>. QED
    BY <2>1, <2>2, <2>3
<1>6. CASE RemoveFile \/ RemoveDownloaded \/ RemoveCopied
  <2>1. /\ step = "remove" /\ SrcStore' \in {SrcStore, Without(SrcStore, hold.from)}
        /\ cmd.way = "copy" \/ DstStore' = DstStore
    <3>1. CASE RemoveFile
      BY <1>3, <3>1 DEF RemoveFile, SrcStore, DstStore
    <3>2. CASE RemoveDownloaded \/ RemoveCopied
      BY <1>3, <3>2 DEF RemoveDownloaded, RemoveCopied, RemoveObject, SrcStore, DstStore
    <3>. QED
      BY <1>6, <3>1, <3>2
  <2>2. KeptBut(hold.from, SrcStore, SrcStore')
    BY <2>1 DEF KeptBut, Without
  <2>. QED
    BY <1>2, <2>1, <2>2 DEF Asks, AskedFor
<1>7. CASE DeleteFile \/ DeleteObject
  <2>1. PICK n \in dels :
            /\ DstStore' = Without(DstStore, n)
            /\ cmd.way = "copy" \/ SrcStore' = SrcStore
    <3>1. CASE DeleteFile
      BY <1>3, <3>1 DEF DeleteFile, Deleting, DstStore, SrcStore
    <3>2. CASE DeleteObject
      BY <1>3, <3>2 DEF DeleteObject, Deleting, DstStore, SrcStore
    <3>. QED
      BY <1>7, <3>1, <3>2
  <2>2. KeptBut(n, DstStore, DstStore')
    BY <2>1 DEF KeptBut, Without
  <2>. QED
    BY <1>2, <2>1, <2>2 DEF Asks
<1>8. CASE Scan \/ Preview \/ Finish \/ Edit \/ UNCHANGED vars
  BY <1>8 DEF Scan, ListCopies, PlanSync, ListFails, Starts, Preview, Finish, Edit, vars, work
<1>. QED
  BY <1>4, <1>5, <1>6, <1>7, <1>8 DEF Next

\* What --exclude names is touched on neither side (sync.go, mv.go, cp.go).
THEOREM OnlyTheAsked == Spec => OnlyWhatWasAskedFor
<1>1. TypeInv /\ AskedInv /\ [Next]_vars =>
        (cmd.tree /\ Disjoint /\ (ToLocal => NoMarkers)
           /\ (step' # step \/ hold' # hold \/ dels' # dels) =>
          /\ \A n \in Side(DstStore, ToLocal, cmd.dst) :
                ~ Included(SideRel(ToLocal, cmd.dst, n))
                => n \in DOMAIN DstStore' /\ DstStore'[n] = DstStore[n]
          /\ \A n \in Side(SrcStore, FromLocal, cmd.src) :
                ~ Included(SrcRel(n))
                => n \in DOMAIN SrcStore' /\ SrcStore'[n] = SrcStore[n])
  <2>. SUFFICES ASSUME TypeInv, AskedInv, [Next]_vars, cmd.tree, Disjoint,
                       ToLocal => NoMarkers,
                       step' # step \/ hold' # hold \/ dels' # dels
                PROVE  /\ \A n \in DOMAIN DstStore : UnderDst(n) /\ ~ Included(DstRel(n))
                            => n \in DOMAIN DstStore' /\ DstStore'[n] = DstStore[n]
                       /\ \A n \in DOMAIN SrcStore : UnderSrc(n) /\ ~ Included(SrcRel(n))
                            => n \in DOMAIN SrcStore' /\ SrcStore'[n] = SrcStore[n]
    BY DEF Side, UnderDst, UnderSrc, DstRel
  <2>1. cmd' = cmd
    BY CommandStays
  <2>2. CASE UNCHANGED <<local, bucket>>
    BY <2>1, <2>2 DEF SrcStore, DstStore, FromLocal, ToLocal
  <2>3. CASE \E x : Asks(x)
    <3>1. PICK x : Asks(x)
      BY <2>3
    <3>2. cmd.way = "copy" =>
            /\ SrcStore = bucket /\ DstStore = bucket /\ SrcStore' = DstStore'
            /\ \A n \in DOMAIN bucket : ~ (UnderSrc(n) /\ UnderDst(n))
      BY <2>1, CommandLine, SidesDisjoint
         DEF TypeInv, TreeNames, SrcStore, DstStore, FromLocal, ToLocal
    <3>3. CASE /\ Stores(x) /\ KeptBut(x, DstStore, DstStore')
               /\ cmd.way = "copy" \/ SrcStore' = SrcStore
      BY <2>3, <3>2, <3>3 DEF Stores, KeptBut
    <3>4. CASE /\ UnderSrc(x) /\ Included(SrcRel(x)) /\ KeptBut(x, SrcStore, SrcStore')
               /\ cmd.way = "copy" \/ DstStore' = DstStore
      BY <2>3, <3>2, <3>4 DEF KeptBut
    <3>. QED
      BY <3>1, <3>3, <3>4 DEF Asks
  <2>. QED
    BY <2>2, <2>3, StepAsks
<1>. QED
  BY <1>1, TypeInvariant, AskedInvariant, PTL DEF Spec, OnlyWhatWasAskedFor

-----------------------------------------------------------------------------
(* Syncs.                                                                    *)

SrcWas == IF FromLocal THEN before.local ELSE before.bucket
DstWas == IF ToLocal THEN before.local ELSE before.bucket

\* The names that this run found and is to bring over, and their transfers.
Source(n) ==
    n \in DOMAIN SrcWas /\ UnderSrc(n) /\ SrcRel(n) # <<>> /\ Included(SrcRel(n))
Transfer(n) == [from |-> n, to |-> DstName(SrcRel(n))]

Undisturbed ==
    /\ cmd.op = "sync" /\ ~ cmd.dryrun /\ ~ edited
    /\ OnBoundary(FromLocal, cmd.src) /\ OnBoundary(ToLocal, cmd.dst)
    /\ Disjoint /\ (ToLocal => NoMarkers)
InRun == step # "idle" \/ exit = "ok"

SourceAsFound ==
    \A n \in DOMAIN SrcStore \cup DOMAIN SrcWas : UnderSrc(n) =>
        n \in DOMAIN SrcStore /\ n \in DOMAIN SrcWas /\ SrcStore[n] = SrcWas[n]
\* There with the contents of n, or as it was, with the size of n and no older.
Matches(m, n) ==
    /\ m \in DOMAIN DstStore /\ m \notin dels
    /\ DstStore[m].size = SrcWas[n].size /\ DstStore[m].time >= SrcWas[n].time
    /\ \/ DstStore[m].data = SrcWas[n].data
       \/ m \in DOMAIN DstWas /\ DstStore[m] = DstWas[m]
BroughtOver ==
    \A n \in DOMAIN SrcWas : Source(n) =>
        \/ Transfer(n) \in todo
        \/ step = "store" /\ hold = Transfer(n)
        \/ Matches(DstName(SrcRel(n)), n)
OnlyTransfers ==
    /\ \A t \in todo : \E n \in DOMAIN SrcWas : Source(n) /\ t = Transfer(n)
    /\ step = "store" => \E n \in DOMAIN SrcWas : Source(n) /\ hold = Transfer(n)
OnlyExtras ==
    \A m \in dels : UnderDst(m) /\ \A n \in DOMAIN SrcWas : Source(n) => DstName(SrcRel(n)) # m
AllExtras ==
    cmd.delete => \A m \in DOMAIN DstStore :
        UnderDst(m) /\ DstRel(m) # <<>> /\ Included(DstRel(m)) =>
            m \in dels \/ \E n \in DOMAIN SrcWas : Source(n) /\ SrcRel(n) = DstRel(m)
\* The names, on both sides, are those of their rels.
SrcNamed ==
    \A n \in DOMAIN SrcWas : UnderSrc(n) =>
        /\ SrcName(SrcRel(n)) = n
        /\ UnderDst(DstName(SrcRel(n))) /\ DstRel(DstName(SrcRel(n))) = SrcRel(n)
DstNamed == \A m \in DOMAIN DstStore : UnderDst(m) => DstName(DstRel(m)) = m

SyncKept ==
    /\ step # "remove" /\ SourceAsFound /\ BroughtOver /\ OnlyTransfers
    /\ OnlyExtras /\ AllExtras /\ SrcNamed /\ DstNamed
SyncInv ==
    /\ exit = "ok" => step = "idle" /\ todo = {} /\ dels = {}
    /\ Undisturbed /\ InRun => SyncKept

LEMMA NameOfRel ==
    ASSUME NEW isLocal \in BOOLEAN, NEW prefix \in Seq(Tokens), NEW n \in Seq(Tokens),
           isLocal => ~ EndsInSlash(n),
           isLocal \/ StartsWith(n, prefix),
           \/ isLocal \/ prefix = <<>> \/ EndsInSlash(prefix)
           \/ StartsWith(n, prefix \o <<Slash>>)
    PROVE  SideName(isLocal, prefix, SideRel(isLocal, prefix, n)) = n
  BY PathOfRel, JoinOfRel DEF SideName, SideRel

\* What depends on the command line and on what the run found alone.
LEMMA SyncConstants ==
    ASSUME UNCHANGED <<cmd, before>>
    PROVE  /\ (FromLocal' <=> FromLocal) /\ (ToLocal' <=> ToLocal)
           /\ SrcWas' = SrcWas /\ DstWas' = DstWas
           /\ \A n : /\ (UnderSrc(n)' <=> UnderSrc(n)) /\ (UnderDst(n)' <=> UnderDst(n))
                    /\ (Source(n)' <=> Source(n)) /\ Transfer(n)' = Transfer(n)
                    /\ SrcRel(n)' = SrcRel(n) /\ DstRel(n)' = DstRel(n)
                    /\ DstName(n)' = DstName(n) /\ (Included(n)' <=> Included(n))
           /\ (SrcNamed' <=> SrcNamed)
<1>1. /\ (FromLocal' <=> FromLocal) /\ (ToLocal' <=> ToLocal)
      /\ SrcWas' = SrcWas /\ DstWas' = DstWas
  BY DEF FromLocal, ToLocal, SrcWas, DstWas
<1>2. \A n : /\ (UnderSrc(n)' <=> UnderSrc(n)) /\ (UnderDst(n)' <=> UnderDst(n))
             /\ SrcRel(n)' = SrcRel(n) /\ DstRel(n)' = DstRel(n)
             /\ DstName(n)' = DstName(n) /\ SrcName(n)' = SrcName(n)
             /\ (Included(n)' <=> Included(n))
  BY <1>1 DEF UnderSrc, UnderDst, SrcRel, DstRel, SideRel, DstName, SrcName, SideName, Included
<1>3. \A n : (Source(n)' <=> Source(n)) /\ Transfer(n)' = Transfer(n)
  BY <1>1, <1>2 DEF Source, Transfer
<1>4. SrcNamed' <=> SrcNamed
  BY <1>1, <1>2 DEF SrcNamed
<1>. QED
  BY <1>1, <1>2, <1>3, <1>4

\* Two sources do not go to one name.
LEMMA SourcesApart ==
    ASSUME SrcNamed, NEW n, NEW p, Source(n), Source(p),
           DstName(SrcRel(n)) = DstName(SrcRel(p))
    PROVE  n = p
<1>1. SrcRel(n) = SrcRel(p)
  BY DEF SrcNamed, Source
<1>. QED
  BY <1>1 DEF SrcNamed, Source

LEMMA SyncInit == Init => SyncInv
  BY DEF Init, SyncInv, InRun

LEMMA SyncPlanned ==
    ASSUME TypeInv, PlanSync, Undisturbed'
    PROVE  SyncKept'
<1>1. /\ cmd' = cmd /\ local' = local /\ bucket' = bucket
      /\ before' = [local |-> local, bucket |-> bucket]
      /\ Starts /\ step' = "next" /\ cmd.tree
      /\ dels' = {DstName(r) : r \in ToDelete}
  BY CommandLine DEF PlanSync, Starts, Listed, TypeInv
<1>2. PICK index \in Index(DstEntries) :
          todo' = {[from |-> SrcName(r), to |-> DstName(r)] : r \in ToCopy(index)}
  BY DEF PlanSync
<1>3. /\ cmd.src \in Seq(Tokens) /\ cmd.dst \in Seq(Tokens)
      /\ ~ (FromLocal /\ ToLocal) /\ FromLocal \in BOOLEAN /\ ToLocal \in BOOLEAN
      /\ (FromLocal' <=> FromLocal) /\ (ToLocal' <=> ToLocal)
  BY <1>1, CommandLine DEF TypeInv, FromLocal, ToLocal
<1>4. /\ SrcStore' = SrcStore /\ DstStore' = DstStore
      /\ SrcWas' = SrcStore /\ DstWas' = DstStore
  BY <1>1, <1>3 DEF SrcStore, DstStore, SrcWas, DstWas
<1>5. \A n : /\ (UnderSrc(n)' <=> UnderSrc(n)) /\ (UnderDst(n)' <=> UnderDst(n))
             /\ SrcRel(n)' = SrcRel(n) /\ DstRel(n)' = DstRel(n)
             /\ DstName(n)' = DstName(n) /\ SrcName(n)' = SrcName(n)
             /\ (Included(n)' <=> Included(n)) /\ Transfer(n)' = Transfer(n)
  BY <1>1, <1>3 DEF UnderSrc, UnderDst, SrcRel, DstRel, SideRel, DstName, SrcName, SideName,
                    Included, Transfer
<1>6. \A n : Source(n)' <=> /\ n \in Side(SrcStore, FromLocal, cmd.src)
                            /\ SrcRel(n) # <<>> /\ Included(SrcRel(n))
  BY <1>4, <1>5 DEF Source, Side, UnderSrc
<1>7. /\ (ToLocal => NoMarkers)'
      /\ OnBoundary(FromLocal, cmd.src)' /\ OnBoundary(ToLocal, cmd.dst)'
  BY DEF Undisturbed
<1>8. ASSUME NEW n \in Side(SrcStore, FromLocal, cmd.src)
      PROVE  /\ SrcName(SrcRel(n)) = n
             /\ UnderDst(DstName(SrcRel(n))) /\ DstRel(DstName(SrcRel(n))) = SrcRel(n)
  <2>1. n \in Seq(Tokens) /\ (FromLocal => ~ EndsInSlash(n))
    BY <1>1 DEF TypeInv, TreeNames, Side, SrcStore
  <2>2. FromLocal \/ StartsWith(n, cmd.src)
    BY DEF Side
  <2>3. \/ FromLocal \/ cmd.src = <<>> \/ EndsInSlash(cmd.src)
        \/ StartsWith(n, cmd.src \o <<Slash>>)
    BY <1>1, <1>3, <1>7, <2>2 DEF OnBoundary, Side, SrcStore
  <2>4. SrcName(SrcRel(n)) = n
    BY <1>3, <2>1, <2>2, <2>3, NameOfRel DEF SrcName, SrcRel
  <2>. QED
    BY <1>1, <1>7, <2>4, ListedRel
<1>9. ASSUME NEW m \in Side(DstStore, ToLocal, cmd.dst)
      PROVE  DstName(DstRel(m)) = m
  <2>1. m \in Seq(Tokens) /\ (ToLocal => ~ EndsInSlash(m))
    BY <1>1 DEF TypeInv, TreeNames, Side, DstStore
  <2>2. ToLocal \/ StartsWith(m, cmd.dst)
    BY DEF Side
  <2>3. \/ ToLocal \/ cmd.dst = <<>> \/ EndsInSlash(cmd.dst)
        \/ StartsWith(m, cmd.dst \o <<Slash>>)
    BY <1>1, <1>3, <1>7, <2>2 DEF OnBoundary, Side, DstStore
  <2>. QED
    BY <1>3, <2>1, <2>2, <2>3, NameOfRel DEF DstName, DstRel
<1>10. /\ \A r : r \in Rels(SrcEntries) <=> \E n : Source(n)' /\ SrcRel(n) = r
       /\ \A r : r \in Rels(DstEntries) <=>
             \E m \in Side(DstStore, ToLocal, cmd.dst) :
                DstRel(m) = r /\ r # <<>> /\ Included(r)
  <2>1. \A r : r \in Rels(SrcEntries) <=> \E n : Source(n)' /\ SrcRel(n) = r
    BY <1>6, SourceRels
  <2>2. \A r : r \in Rels(DstEntries) <=>
             \E m \in Side(DstStore, ToLocal, cmd.dst) :
                DstRel(m) = r /\ r # <<>> /\ Included(r)
    BY DestinationRels DEF DstRel
  <2>. QED
    BY <2>1, <2>2
<1>11. ASSUME NEW d \in dels'
       PROVE  /\ d \in Side(DstStore, ToLocal, cmd.dst)
              /\ \A n : Source(n)' => SrcRel(n) # DstRel(d)
  <2>1. PICK r \in ToDelete : d = DstName(r)
    BY <1>1
  <2>2. r \in Rels(DstEntries) /\ r \notin Rels(SrcEntries)
    BY <2>1 DEF ToDelete
  <2>3. PICK m \in Side(DstStore, ToLocal, cmd.dst) : DstRel(m) = r
    BY <1>10, <2>2
  <2>4. d = m
    BY <1>9, <2>1, <2>3
  <2>. QED
    BY <1>10, <2>2, <2>3, <2>4
<1>12. SrcNamed'
  BY <1>4, <1>5, <1>8 DEF SrcNamed, Side, UnderSrc
<1>13. DstNamed'
  BY <1>4, <1>5, <1>9 DEF DstNamed, Side, UnderDst
<1>14. SourceAsFound'
  BY <1>4 DEF SourceAsFound
<1>15. OnlyTransfers'
  <2>. SUFFICES ASSUME NEW t \in todo'
                PROVE  \E n \in DOMAIN SrcStore : Source(n)' /\ t = Transfer(n)
    BY <1>1, <1>4, <1>5 DEF OnlyTransfers
  <2>1. PICK r \in ToCopy(index) : t = [from |-> SrcName(r), to |-> DstName(r)]
    BY <1>2
  <2>2. r \in Rels(SrcEntries)
    BY DEF ToCopy, Rels
  <2>3. PICK n : Source(n)' /\ SrcRel(n) = r
    BY <1>10, <2>2
  <2>4. n \in Side(SrcStore, FromLocal, cmd.src)
    BY <1>6, <2>3
  <2>5. t = Transfer(n)
    BY <1>8, <2>1, <2>3, <2>4 DEF Transfer
  <2>. QED
    BY <2>3, <2>4, <2>5 DEF Side
<1>16. OnlyExtras'
  <2>1. ASSUME NEW d \in dels'
        PROVE  UnderDst(d) /\ \A n : Source(n)' => DstName(SrcRel(n)) # d
    <3>1. d \in Side(DstStore, ToLocal, cmd.dst) /\ \A n : Source(n)' => SrcRel(n) # DstRel(d)
      BY <1>11
    <3>2. \A n : Source(n)' => DstRel(DstName(SrcRel(n))) = SrcRel(n)
      BY <1>6, <1>8
    <3>. QED
      BY <3>1, <3>2 DEF Side, UnderDst
  <2>. QED
    BY <1>5, <2>1 DEF OnlyExtras
<1>17. AllExtras'
  <2>. SUFFICES ASSUME cmd.delete, NEW m \in DOMAIN DstStore, UnderDst(m),
                       DstRel(m) # <<>>, Included(DstRel(m))
                PROVE  m \in dels' \/ \E n : Source(n)' /\ SrcRel(n) = DstRel(m)
    BY <1>1, <1>4, <1>5 DEF AllExtras, Source
  <2>1. m \in Side(DstStore, ToLocal, cmd.dst)
    BY DEF Side, UnderDst
  <2>2. DstRel(m) \in Rels(DstEntries) /\ DstName(DstRel(m)) = m
    BY <1>9, <1>10, <2>1
  <2>. QED
    BY <1>1, <1>10, <2>2 DEF ToDelete
<1>18. BroughtOver'
  <2>. SUFFICES ASSUME NEW n, Source(n)', Transfer(n) \notin todo'
                PROVE  Matches(DstName(SrcRel(n)), n)'
    BY <1>5 DEF BroughtOver
  <2>. DEFINE r == SrcRel(n)
              e == [rel |-> r, at |-> SrcStore[n]]
              m == DstName(r)
  <2>1. /\ n \in Side(SrcStore, FromLocal, cmd.src) /\ n \in DOMAIN SrcStore
        /\ e \in SrcEntries /\ e.rel = r /\ e.at = SrcStore[n]
    BY <1>6 DEF SrcEntries, Entries, Side, SrcRel
  <2>2. r \notin ToCopy(index)
    BY <1>2, <1>8, <2>1 DEF Transfer
  <2>3. r \in DOMAIN index /\ ~ NeedsCopy(SrcStore[n], index[r].at)
    <3>1. ~ (e.rel \in DOMAIN index => NeedsCopy(e.at, index[e.rel].at))
      <4>. HIDE DEF e
      <4>. QED
        BY <2>1, <2>2 DEF ToCopy
    <3>. QED
      BY <2>1, <3>1
  <2>4. index[r] \in DstEntries /\ index[r].rel = r
    BY <2>3 DEF Index
  <2>5. PICK p \in Side(DstStore, ToLocal, cmd.dst) :
            r = DstRel(p) /\ index[r].at = DstStore[p]
    BY <2>4, EntryOfDestination DEF DstRel
  <2>6. p = m /\ m \in DOMAIN DstStore
    BY <1>9, <2>5 DEF Side
  <2>7. ~ NeedsCopy(SrcStore[n], DstStore[m])
    BY <2>3, <2>5, <2>6
  <2>8. Object(SrcStore[n], clock) /\ Object(DstStore[m], clock)
    BY <2>1, <2>6 DEF TypeInv, Objects, SrcStore, DstStore
  <2>9. /\ SrcStore[n].time \in Nat /\ DstStore[m].time \in Nat
        /\ DstStore[m].size = SrcStore[n].size
        /\ IF cmd.exact THEN SrcStore[n].time = DstStore[m].time
                        ELSE ~ (SrcStore[n].time > DstStore[m].time)
    BY <2>7, <2>8, Zenon DEF Object, NeedsCopy
  <2>10. DstStore[m].time >= SrcStore[n].time
    BY <2>9
  <2>11. m \notin dels'
    BY <1>11, <2>5, <2>6
  <2>. QED
    BY <1>4, <1>5, <2>6, <2>9, <2>10, <2>11 DEF Matches
<1>. QED
  BY <1>1, <1>12, <1>13, <1>14, <1>15, <1>16, <1>17, <1>18 DEF SyncKept

\* A step that changes nothing, or ends a run that has nothing left to do.
LEMMA SyncSame ==
    ASSUME SyncKept, UNCHANGED <<cmd, before, local, bucket, todo, dels, hold>>,
           step' = step \/ (step # "store" /\ step' \notin {"store", "remove"})
    PROVE  SyncKept'
<1>1. /\ (FromLocal' <=> FromLocal) /\ (ToLocal' <=> ToLocal)
      /\ SrcWas' = SrcWas /\ DstWas' = DstWas
      /\ \A n : /\ (UnderSrc(n)' <=> UnderSrc(n)) /\ (UnderDst(n)' <=> UnderDst(n))
               /\ (Source(n)' <=> Source(n)) /\ Transfer(n)' = Transfer(n)
               /\ SrcRel(n)' = SrcRel(n) /\ DstRel(n)' = DstRel(n)
               /\ DstName(n)' = DstName(n) /\ (Included(n)' <=> Included(n))
      /\ (SrcNamed' <=> SrcNamed)
  BY SyncConstants
<1>2. SrcStore' = SrcStore /\ DstStore' = DstStore
  BY <1>1 DEF SrcStore, DstStore
<1>3. \A m, n : Matches(m, n)' <=> Matches(m, n)
  BY <1>1, <1>2 DEF Matches
<1>4. BroughtOver'
  BY <1>1, <1>3 DEF SyncKept, BroughtOver
<1>5. OnlyTransfers' /\ OnlyExtras' /\ AllExtras'
  BY <1>1, <1>2 DEF SyncKept, OnlyTransfers, OnlyExtras, AllExtras
<1>6. SourceAsFound' /\ DstNamed'
  BY <1>1, <1>2 DEF SyncKept, SourceAsFound, DstNamed
<1>. QED
  BY <1>1, <1>4, <1>5, <1>6 DEF SyncKept

LEMMA SyncBegun ==
    ASSUME TypeInv, SyncKept, Begin, ~ (Fail /\ UNCHANGED local)
    PROVE  SyncKept'
<1>. USE DEF SyncKept
<1>1. cmd' = cmd /\ before' = before /\ bucket' = bucket /\ step = "next"
  BY DEF Begin, Running
<1>2. PICK t \in todo :
          /\ hold' = t /\ todo' = todo \ {t} /\ step' = "store" /\ dels' = dels
          /\ local' = IF ToLocal
                      THEN Put(local, t.to, [data |-> <<>>, size |-> 0, time |-> clock])
                      ELSE local
  BY DEF Begin
<1>3. /\ (FromLocal' <=> FromLocal) /\ (ToLocal' <=> ToLocal)
      /\ SrcWas' = SrcWas /\ DstWas' = DstWas
      /\ \A n : /\ (UnderSrc(n)' <=> UnderSrc(n)) /\ (UnderDst(n)' <=> UnderDst(n))
               /\ (Source(n)' <=> Source(n)) /\ Transfer(n)' = Transfer(n)
               /\ SrcRel(n)' = SrcRel(n) /\ DstRel(n)' = DstRel(n)
               /\ DstName(n)' = DstName(n) /\ (Included(n)' <=> Included(n))
      /\ (SrcNamed' <=> SrcNamed)
  BY <1>1, SyncConstants
<1>4. PICK h \in DOMAIN SrcWas : Source(h) /\ t = Transfer(h)
  BY DEF OnlyTransfers
<1>5. /\ t.to = DstName(SrcRel(h))
      /\ UnderDst(t.to) /\ DstRel(t.to) = SrcRel(h)
  BY <1>4 DEF Transfer, SrcNamed, Source
<1>6. SrcStore' = SrcStore
  BY <1>1, <1>2, <1>3, CommandLine DEF TypeInv, SrcStore
<1>7. /\ DOMAIN DstStore' \subseteq DOMAIN DstStore \cup {t.to}
      /\ \A m \in DOMAIN DstStore : m # t.to => m \in DOMAIN DstStore' /\ DstStore'[m] = DstStore[m]
  BY <1>1, <1>2, <1>3 DEF DstStore, Put, Over
<1>8. SourceAsFound'
  BY <1>3, <1>6 DEF SourceAsFound
<1>9. BroughtOver'
  <2>. SUFFICES ASSUME NEW n \in DOMAIN SrcWas, Source(n), n # h
                PROVE  Transfer(n) \in todo' \/ Matches(DstName(SrcRel(n)), n)'
    BY <1>2, <1>3, <1>4 DEF BroughtOver
  <2>1. CASE Transfer(n) \in todo
    BY <1>2, <1>4, <2>1 DEF Transfer
  <2>2. CASE Matches(DstName(SrcRel(n)), n)
    <3>1. DstName(SrcRel(n)) # t.to
      BY <1>4, <1>5, SourcesApart
    <3>2. DstName(SrcRel(n)) \in DOMAIN DstStore
      BY <2>2 DEF Matches
    <3>. QED
      BY <1>2, <1>3, <1>7, <2>2, <3>1, <3>2 DEF Matches
  <2>. QED
    BY <1>1, <2>1, <2>2 DEF BroughtOver
<1>10. OnlyTransfers'
  BY <1>2, <1>3, <1>4 DEF OnlyTransfers
<1>11. OnlyExtras'
  BY <1>2, <1>3 DEF OnlyExtras
<1>12. AllExtras'
  BY <1>1, <1>2, <1>3, <1>4, <1>5, <1>7 DEF AllExtras
<1>13. DstNamed'
  BY <1>3, <1>5, <1>7 DEF DstNamed
<1>. QED
  BY <1>2, <1>3, <1>8, <1>9, <1>10, <1>11, <1>12, <1>13

LEMMA SyncStored ==
    ASSUME TypeInv, Undisturbed, SyncKept, Store, ~ Fail
    PROVE  SyncKept'
<1>. USE DEF SyncKept
<1>1. /\ cmd' = cmd /\ before' = before /\ step = "store" /\ cmd.op = "sync" /\ cmd.tree
      /\ Disjoint
      /\ hold.from \in DOMAIN SrcStore
      /\ Uploaded \/ Downloaded \/ Copied
      /\ Landed /\ UNCHANGED <<todo, dels, hold>>
  BY CommandLine DEF Store, Undisturbed, TypeInv
<1>2. step' = "next"
  BY <1>1 DEF Landed
<1>3. /\ (FromLocal' <=> FromLocal) /\ (ToLocal' <=> ToLocal)
      /\ SrcWas' = SrcWas /\ DstWas' = DstWas
      /\ \A n : /\ (UnderSrc(n)' <=> UnderSrc(n)) /\ (UnderDst(n)' <=> UnderDst(n))
               /\ (Source(n)' <=> Source(n)) /\ Transfer(n)' = Transfer(n)
               /\ SrcRel(n)' = SrcRel(n) /\ DstRel(n)' = DstRel(n)
               /\ DstName(n)' = DstName(n) /\ (Included(n)' <=> Included(n))
      /\ (SrcNamed' <=> SrcNamed)
  BY <1>1, SyncConstants
<1>4. PICK h \in DOMAIN SrcWas : Source(h) /\ hold = Transfer(h)
  BY <1>1 DEF OnlyTransfers
<1>. PICK d : d = DstName(SrcRel(h))
  OBVIOUS
<1>. DEFINE o == Stored(h)
<1>5. /\ hold.from = h /\ hold.to = d
      /\ UnderDst(d) /\ DstRel(d) = SrcRel(h)
  BY <1>4 DEF Transfer, SrcNamed, Source
<1>6. d \in Seq(Tokens)
  BY <1>1, <1>5 DEF TypeInv, TreeNames, Target
<1>7. SrcStore[h] = SrcWas[h] /\ h \in DOMAIN SrcStore
  BY <1>4 DEF SourceAsFound, Source
<1>8. /\ o.data = SrcWas[h].data /\ o.size = SrcWas[h].size /\ o.time = clock
      /\ clock >= SrcWas[h].time
  <2>1. Objects(SrcStore, clock) /\ clock \in Nat
    BY DEF TypeInv, SrcStore
  <2>2. Object(SrcStore[h], clock)
    BY <1>7, <2>1 DEF Objects
  <2>3. SrcStore[h].time \in Nat /\ SrcStore[h].time <= clock
    BY <2>2 DEF Object
  <2>. QED
    BY <1>7, <2>1, <2>3, StoredIs
<1>9. DstStore' = Put(DstStore, d, o)
  BY <1>1, <1>3, <1>5, CommandLine
     DEF TypeInv, Uploaded, Downloaded, Copied, DstStore, FromLocal, ToLocal
<1>10. /\ cmd.way # "copy" => SrcStore' = SrcStore
       /\ cmd.way = "copy" => SrcStore' = Put(SrcStore, d, o) /\ ~ UnderSrc(d)
  <2>1. cmd.way # "copy" => SrcStore' = SrcStore
    BY <1>1, <1>3, CommandLine
       DEF TypeInv, Uploaded, Downloaded, Copied, SrcStore, FromLocal, ToLocal
  <2>2. cmd.way = "copy" => SrcStore' = Put(SrcStore, d, o)
    BY <1>1, <1>3, <1>5, CommandLine
       DEF TypeInv, Uploaded, Downloaded, Copied, SrcStore, FromLocal, ToLocal
  <2>3. cmd.way = "copy" => ~ UnderSrc(d)
    BY <1>1, <1>5, <1>6, SidesDisjoint
  <2>. QED
    BY <2>1, <2>2, <2>3
<1>. HIDE DEF o
<1>11. \A n : UnderSrc(n) =>
          /\ n \in DOMAIN SrcStore' <=> n \in DOMAIN SrcStore
          /\ n \in DOMAIN SrcStore => SrcStore'[n] = SrcStore[n]
  BY <1>10 DEF Put, Over
<1>12. SourceAsFound'
  BY <1>3, <1>11 DEF SourceAsFound
<1>13. /\ DOMAIN DstStore' = DOMAIN DstStore \cup {d} /\ DstStore'[d] = o
       /\ \A m \in DOMAIN DstStore : m # d => DstStore'[m] = DstStore[m]
  BY <1>9 DEF Put, Over
<1>14. BroughtOver'
  <2>. SUFFICES ASSUME NEW n \in DOMAIN SrcWas, Source(n), Transfer(n) \notin todo
                PROVE  Matches(DstName(SrcRel(n)), n)'
    BY <1>1, <1>3 DEF BroughtOver
  <2>1. CASE n = h
    <3>1. d \notin dels
      BY <1>4 DEF OnlyExtras
    <3>2. Matches(d, h)'
      BY <1>1, <1>3, <1>8, <1>13, <3>1 DEF Matches
    <3>. QED
      BY <1>3, <2>1, <3>2
  <2>2. CASE n # h
    <3>1. DstName(SrcRel(n)) # d
      BY <1>4, <2>2, SourcesApart
    <3>2. hold # Transfer(n)
      BY <1>5, <2>2 DEF Transfer
    <3>3. Matches(DstName(SrcRel(n)), n)
      BY <3>2 DEF BroughtOver
    <3>. QED
      BY <1>1, <1>3, <1>13, <3>1, <3>3 DEF Matches
  <2>. QED
    BY <2>1, <2>2
<1>15. OnlyTransfers'
  BY <1>1, <1>2, <1>3 DEF OnlyTransfers
<1>16. OnlyExtras'
  BY <1>1, <1>3 DEF OnlyExtras
<1>17. AllExtras'
  BY <1>1, <1>3, <1>4, <1>5, <1>13 DEF AllExtras
<1>18. DstNamed'
  BY <1>3, <1>5, <1>13 DEF DstNamed
<1>. QED
  BY <1>2, <1>3, <1>12, <1>14, <1>15, <1>16, <1>17, <1>18

LEMMA SyncDeleted ==
    ASSUME TypeInv, Undisturbed, SyncKept, DeleteFile \/ DeleteObject, ~ Fail
    PROVE  SyncKept'
<1>. USE DEF SyncKept
<1>1. /\ cmd' = cmd /\ before' = before /\ step = "next" /\ step' = step
      /\ todo' = todo /\ hold' = hold /\ cmd.tree /\ Disjoint
  BY CommandLine DEF DeleteFile, DeleteObject, Deleting, Undisturbed, TypeInv
<1>2. /\ (FromLocal' <=> FromLocal) /\ (ToLocal' <=> ToLocal)
      /\ SrcWas' = SrcWas /\ DstWas' = DstWas
      /\ \A n : /\ (UnderSrc(n)' <=> UnderSrc(n)) /\ (UnderDst(n)' <=> UnderDst(n))
               /\ (Source(n)' <=> Source(n)) /\ Transfer(n)' = Transfer(n)
               /\ SrcRel(n)' = SrcRel(n) /\ DstRel(n)' = DstRel(n)
               /\ DstName(n)' = DstName(n) /\ (Included(n)' <=> Included(n))
      /\ (SrcNamed' <=> SrcNamed)
  BY <1>1, SyncConstants
<1>3. PICK d \in dels :
          /\ DstStore' = Without(DstStore, d) /\ dels' = dels \ {d}
          /\ cmd.way # "copy" => SrcStore' = SrcStore
          /\ cmd.way = "copy" => SrcStore' = Without(SrcStore, d)
  <2>1. CASE DeleteFile
    BY <1>2, <2>1, CommandLine DEF TypeInv, DeleteFile, DstStore, SrcStore
  <2>2. CASE DeleteObject
    BY <1>2, <2>2, CommandLine DEF TypeInv, DeleteObject, DstStore, SrcStore
  <2>. QED
    BY <2>1, <2>2
<1>4. UnderDst(d) /\ \A n \in DOMAIN SrcWas : Source(n) => DstName(SrcRel(n)) # d
  BY DEF OnlyExtras
<1>5. \A n \in DOMAIN SrcStore : UnderSrc(n) =>
          n \in DOMAIN SrcStore' /\ SrcStore'[n] = SrcStore[n]
  <2>. SUFFICES ASSUME NEW n \in DOMAIN SrcStore, UnderSrc(n), cmd.way = "copy"
                PROVE  n # d
    BY <1>3 DEF Without
  <2>1. n \in Seq(Tokens)
    BY <1>1 DEF TypeInv, TreeNames, SrcStore
  <2>. QED
    BY <1>1, <1>4, <2>1, SidesDisjoint
<1>6. DOMAIN SrcStore' \subseteq DOMAIN SrcStore
  BY <1>3 DEF Without
<1>7. SourceAsFound'
  BY <1>2, <1>5, <1>6 DEF SourceAsFound
<1>8. /\ DOMAIN DstStore' = DOMAIN DstStore \ {d}
      /\ \A m \in DOMAIN DstStore' : DstStore'[m] = DstStore[m]
  BY <1>3 DEF Without
<1>9. BroughtOver'
  <2>. SUFFICES ASSUME NEW n \in DOMAIN SrcWas, Source(n), Matches(DstName(SrcRel(n)), n)
                PROVE  Matches(DstName(SrcRel(n)), n)'
    BY <1>1, <1>2 DEF BroughtOver
  <2>1. DstName(SrcRel(n)) # d
    BY <1>4
  <2>. QED
    BY <1>2, <1>3, <1>8, <2>1 DEF Matches
<1>10. OnlyTransfers'
  BY <1>1, <1>2 DEF OnlyTransfers
<1>11. OnlyExtras'
  BY <1>2, <1>3 DEF OnlyExtras
<1>12. AllExtras'
  BY <1>1, <1>2, <1>3, <1>8 DEF AllExtras
<1>13. DstNamed'
  BY <1>2, <1>8 DEF DstNamed
<1>. QED
  BY <1>1, <1>2, <1>7, <1>9, <1>10, <1>11, <1>12, <1>13

LEMMA SyncStep == TypeInv /\ SyncInv /\ [Next]_vars => SyncInv'
<1>. SUFFICES ASSUME TypeInv, SyncInv, [Next]_vars
              PROVE  SyncInv'
  OBVIOUS
<1>1. cmd' = cmd
  BY CommandStays
<1>2. (exit = "ok" => step = "idle" /\ todo = {} /\ dels = {})'
  <2>1. CASE Scan
    BY <2>1 DEF Scan, ListCopies, PlanSync, ListFails, Listed, Fail
  <2>2. CASE Preview \/ Begin \/ Store \/ RemoveFile \/ RemoveDownloaded \/ RemoveCopied
             \/ DeleteFile \/ DeleteObject \/ Finish
    BY <2>2 DEF Preview, Begin, Store, RemoveFile, RemoveDownloaded, RemoveCopied,
                RemoveObject, DeleteFile, DeleteObject, Deleting, Finish, Running, Fail
  <2>3. CASE Edit \/ UNCHANGED vars
    BY <2>3 DEF Edit, vars, work, SyncInv
  <2>. QED
    BY <2>1, <2>2, <2>3 DEF Next
<1>. SUFFICES ASSUME Undisturbed', InRun'
               PROVE  SyncKept'
  BY <1>2 DEF SyncInv
<1>4. /\ cmd.op = "sync" /\ ~ cmd.dryrun /\ ~ edited'
  BY <1>1 DEF Undisturbed
<1>5. CASE Scan
  <2>1. PlanSync
    BY <1>4, <1>5 DEF Scan, ListCopies, ListFails, Fail, InRun
  <2>. QED
    BY <2>1, SyncPlanned
<1>6. CASE ~ Scan
  <2>1. ~ Edit /\ ~ Preview
    BY <1>4 DEF Edit, Preview
  <2>2. before' = before /\ edited' = edited
    BY <1>6, <2>1 DEF Next, Begin, Store, RemoveFile, RemoveDownloaded, RemoveCopied,
                      RemoveObject, DeleteFile, DeleteObject, Finish, vars, counters
  <2>3. Undisturbed
    BY <1>1, <2>2 DEF Undisturbed, OnBoundary, Disjoint, NoMarkers, FromLocal, ToLocal
  <2>4. CASE UNCHANGED vars
    <3>1. SyncKept
      BY <2>3, <2>4 DEF SyncInv, InRun, vars, work
    <3>2. UNCHANGED <<cmd, before, local, bucket, todo, dels, hold, step>>
      BY <2>4 DEF vars, work
    <3>. QED
      BY <3>1, <3>2, SyncSame
  <2>5. CASE ~ UNCHANGED vars
    <3>1. Running
      BY <1>6, <2>1, <2>5 DEF Next, Begin, Store, RemoveFile, RemoveDownloaded, RemoveCopied,
                              RemoveObject, DeleteFile, DeleteObject, Deleting, Finish
    <3>2. SyncKept
      BY <2>3, <3>1 DEF SyncInv, InRun, Running
    <3>3. ~ Fail
      BY DEF Fail, InRun
    <3>4. CASE Begin
      BY <3>2, <3>3, <3>4, SyncBegun
    <3>5. CASE Store
      BY <2>3, <3>2, <3>3, <3>5, SyncStored
    <3>6. CASE RemoveFile \/ RemoveDownloaded \/ RemoveCopied
      BY <3>2, <3>6 DEF SyncKept, RemoveFile, RemoveDownloaded, RemoveCopied, RemoveObject
    <3>7. CASE DeleteFile \/ DeleteObject
      BY <2>3, <3>2, <3>3, <3>7, SyncDeleted
    <3>8. CASE Finish
      <4>1. UNCHANGED <<cmd, before, local, bucket, todo, dels, hold>> /\ step = "next"
            /\ step' = "idle"
        BY <3>8 DEF Finish
      <4>. QED
        BY <3>2, <4>1, SyncSame
    <3>. QED
      BY <1>6, <2>1, <2>5, <3>4, <3>5, <3>6, <3>7, <3>8 DEF Next
  <2>. QED
    BY <2>4, <2>5
<1>. QED
  BY <1>5, <1>6

LEMMA SyncInvariant == Spec => []SyncInv
<1>1. Init => SyncInv
  BY SyncInit
<1>2. TypeInv /\ SyncInv /\ [Next]_vars => SyncInv'
  BY SyncStep
<1>. QED
  BY <1>1, <1>2, TypeInvariant, PTL DEF Spec

\* A sync that nobody disturbed leaves the destination as the source is (sync.go).
THEOREM SyncsSettle == Spec => []SyncSettles
<1>1. TypeInv /\ SyncInv => SyncSettles
  <2>. SUFFICES ASSUME TypeInv, SyncInv, exit = "ok", Undisturbed
                PROVE  /\ \A e \in SrcEntries :
                            /\ DstName(e.rel) \in DOMAIN DstStore
                            /\ DstStore[DstName(e.rel)].data # e.at.data =>
                                  /\ DstName(e.rel) \in DOMAIN DstWas
                                  /\ DstWas[DstName(e.rel)] = DstStore[DstName(e.rel)]
                                  /\ DstWas[DstName(e.rel)].size = e.at.size
                                  /\ DstWas[DstName(e.rel)].time >= e.at.time
                       /\ cmd.delete => Rels(DstEntries) \subseteq Rels(SrcEntries)
                       /\ ~ cmd.exact => \A index \in Index(DstEntries) : ToCopy(index) = {}
    BY Zenon DEF SyncSettles, Undisturbed, DstWas
  <2>1. SyncKept /\ step = "idle" /\ todo = {} /\ dels = {}
    BY DEF SyncInv, InRun
  <2>2. ASSUME NEW e \in SrcEntries
        PROVE  \E n \in DOMAIN SrcWas :
                  /\ Source(n) /\ e.rel = SrcRel(n) /\ e.at = SrcWas[n] /\ n \in DOMAIN SrcStore
                  /\ SrcStore[n] = SrcWas[n] /\ Matches(DstName(SrcRel(n)), n)
    <3>1. PICK n \in Side(SrcStore, FromLocal, cmd.src) :
              e.rel = SrcRel(n) /\ e.at = SrcStore[n] /\ e.rel # <<>> /\ Included(e.rel)
      BY EntryOfSource
    <3>2. n \in DOMAIN SrcStore /\ UnderSrc(n)
      BY DEF Side, UnderSrc
    <3>3. n \in DOMAIN SrcWas /\ SrcStore[n] = SrcWas[n]
      BY <2>1, <3>2 DEF SyncKept, SourceAsFound
    <3>4. Source(n)
      BY <3>1, <3>2, <3>3 DEF Source
    <3>5. Matches(DstName(SrcRel(n)), n)
      BY <2>1, <3>3, <3>4 DEF SyncKept, BroughtOver
    <3>. QED
      BY <3>1, <3>2, <3>3, <3>4, <3>5
  <2>3. ASSUME NEW e \in SrcEntries
        PROVE  /\ DstName(e.rel) \in DOMAIN DstStore
               /\ DstStore[DstName(e.rel)].data # e.at.data =>
                    /\ DstName(e.rel) \in DOMAIN DstWas
                    /\ DstWas[DstName(e.rel)] = DstStore[DstName(e.rel)]
                    /\ DstWas[DstName(e.rel)].size = e.at.size
                    /\ DstWas[DstName(e.rel)].time >= e.at.time
    <3>1. PICK n \in DOMAIN SrcWas :
              e.rel = SrcRel(n) /\ e.at = SrcWas[n] /\ Matches(DstName(SrcRel(n)), n)
      BY <2>2
    <3>. QED
      BY <3>1, Zenon DEF Matches
  <2>4. ASSUME cmd.delete, NEW r \in Rels(DstEntries)
        PROVE  r \in Rels(SrcEntries)
    <3>1. PICK m \in Side(DstStore, ToLocal, cmd.dst) :
              SideRel(ToLocal, cmd.dst, m) = r /\ r # <<>> /\ Included(r)
      BY DestinationRels
    <3>2. m \in DOMAIN DstStore /\ UnderDst(m) /\ DstRel(m) = r
      BY <3>1 DEF Side, UnderDst, DstRel
    <3>3. PICK n \in DOMAIN SrcWas : Source(n) /\ SrcRel(n) = r
      BY <2>1, <2>4, <3>1, <3>2 DEF SyncKept, AllExtras
    <3>4. n \in Side(SrcStore, FromLocal, cmd.src)
      BY <2>1, <3>3 DEF SyncKept, SourceAsFound, Source, UnderSrc, Side
    <3>. QED
      BY <3>1, <3>3, <3>4, SourceRels
  <2>5. ASSUME ~ cmd.exact, NEW index \in Index(DstEntries), NEW r \in ToCopy(index)
        PROVE  FALSE
    <3>1. PICK e \in SrcEntries :
              e.rel = r /\ (r \in DOMAIN index => NeedsCopy(e.at, index[r].at))
      BY DEF ToCopy
    <3>2. PICK n \in DOMAIN SrcWas :
              /\ Source(n) /\ r = SrcRel(n) /\ e.at = SrcWas[n] /\ n \in DOMAIN SrcStore
              /\ SrcStore[n] = SrcWas[n] /\ Matches(DstName(r), n)
      BY <2>2, <3>1
    <3>. DEFINE m == DstName(r)
    <3>3. m \in DOMAIN DstStore /\ UnderDst(m) /\ DstRel(m) = r /\ r # <<>> /\ Included(r)
      BY <2>1, <3>2 DEF SyncKept, SrcNamed, Source, Matches
    <3>4. m \in Side(DstStore, ToLocal, cmd.dst) /\ SideRel(ToLocal, cmd.dst, m) = r
      BY <3>3 DEF Side, UnderDst, DstRel
    <3>5. r \in Rels(DstEntries)
      BY <3>3, <3>4, DestinationRels
    <3>6. r \in DOMAIN index /\ index[r] \in DstEntries /\ index[r].rel = r
      BY <3>5 DEF Index
    <3>7. PICK p \in Side(DstStore, ToLocal, cmd.dst) :
              r = SideRel(ToLocal, cmd.dst, p) /\ index[r].at = DstStore[p]
      BY <3>6, EntryOfDestination
    <3>8. p = m
      BY <2>1, <3>7 DEF SyncKept, DstNamed, Side, UnderDst, DstRel
    <3>9. NeedsCopy(SrcStore[n], DstStore[m])
      BY <3>1, <3>2, <3>6, <3>7, <3>8
    <3>10. SrcStore[n].time \in Nat /\ DstStore[m].time \in Nat
      BY <3>2, <3>3 DEF TypeInv, Objects, Object, SrcStore, DstStore
    <3>11. DstStore[m].size = SrcStore[n].size /\ DstStore[m].time >= SrcStore[n].time
      BY <3>2, Zenon DEF Matches
    <3>12. SrcStore[n].time > DstStore[m].time
      BY <2>5, <3>9, <3>11, Zenon DEF NeedsCopy
    <3>. QED
      BY <3>10, <3>11, <3>12
  <2>. QED
    BY <2>3, <2>4, <2>5
<1>. QED
  BY <1>1, TypeInvariant, SyncInvariant, PTL
=============================================================================
