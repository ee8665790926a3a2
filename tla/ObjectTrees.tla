----------------------------- MODULE ObjectTrees -----------------------------
(***************************************************************************)
(* The commands on trees of objects: cp and mv, of one name or --recursive,  *)
(* and sync, between a local directory and a prefix of a bucket, or two       *)
(* prefixes of it.  A name is a sequence of tokens, one of which is the      *)
(* slash, since all these commands know of directories is what relKey and    *)
(* joinKey make of prefixes.  The same command is run several times; calls   *)
(* fail, a delete perhaps after its work, and others edit the files while    *)
(* the command runs.                                                        *)
(*                                                                         *)
(* The local names are relative to the directory of the command line, which  *)
(* a sync may find missing.  Left out: other directories that are empty, and  *)
(* the order of the listing, of which any order stands.                      *)
(***************************************************************************)
EXTENDS Naturals, Sequences

CONSTANTS
    Tokens,        \* what names are made of
    Invocations,   \* the command lines
    Keys, Files,   \* names that the bucket, and the directory, may hold at first
    Sizes,         \* sizes of objects
    MaxRounds,     \* bound: runs of the command
    MaxFaults,     \* bound: calls that fail
    MaxEdits       \* bound: edits by others

VARIABLES
    cmd,      \* [op, tree, way, src, dst, delete, exact, dryrun, excluded]
    local,    \* path -> file
    bucket,   \* key -> object
    root,     \* the local directory is there
    todo,     \* transfers left: [from, to]
    dels,     \* deletes left, of a sync
    hold,     \* the transfer under way, or None
    step,     \* "idle", "next", "store" or "remove"
    exit,     \* "none", "ok" or "error"
    before,   \* [local, bucket] when this run began
    first,    \* [local, bucket] in the beginning
    clock, round, faults, edits,
    edited    \* others edited something during this run

work == <<todo, dels, hold, step>>
counters == <<round, faults, edits, edited>>
vars == <<cmd, local, bucket, root, work, exit, before, first, clock, counters>>

Slash == "/"
None == [from |-> <<>>, to |-> <<>>]

EndsInSlash(s) == s # <<>> /\ s[Len(s)] = Slash

\* Keys with an empty part, as in a//b, are left out; a file's path ends in no slash.
ASSUME TreesAssumption ==
    /\ Slash \in Tokens
    /\ Keys \subseteq Seq(Tokens) /\ Files \subseteq Seq(Tokens) /\ Sizes \subseteq Nat
    /\ \A k \in Keys : \A i \in 1 .. Len(k) - 1 : k[i] = Slash => k[i + 1] # Slash
    /\ \A f \in Files : f # <<>> /\ ~ EndsInSlash(f)
    /\ Invocations \subseteq
          [op : {"cp", "mv", "sync"}, tree : BOOLEAN, way : {"upload", "download", "copy"},
           src : Seq(Tokens), dst : Seq(Tokens), delete : BOOLEAN, exact : BOOLEAN,
           dryrun : BOOLEAN, excluded : SUBSET Seq(Tokens)]
    /\ \A c \in Invocations : c.op = "sync" => c.tree

-----------------------------------------------------------------------------
(* Names.                                                                    *)

StartsWith(s, p) == Len(p) <= Len(s) /\ SubSeq(s, 1, Len(p)) = p
Drop(s, n) == SubSeq(s, n + 1, Len(s))

\* The part of a listed key that follows the prefix, without a leading slash.
RelKey(prefix, key) ==
    LET tail == Drop(key, Len(prefix)) IN
    IF prefix # <<>> /\ ~ EndsInSlash(prefix) /\ StartsWith(tail, <<Slash>>)
    THEN Tail(tail) ELSE tail
JoinKey(prefix, rel) ==
    IF prefix = <<>> \/ EndsInSlash(prefix) THEN prefix \o rel
    ELSE prefix \o <<Slash>> \o rel
\* filepath.Join, as safeJoin and the uploads use it.
LocalPath(rel) == IF EndsInSlash(rel) THEN SubSeq(rel, 1, Len(rel) - 1) ELSE rel

\* A file of some name rules out a directory of that name.
IsDir(p) == p = <<>> \/ \E f \in DOMAIN local : StartsWith(f, p \o <<Slash>>)
CanCreate(p) == ~ IsDir(p) /\ \A f \in DOMAIN local : ~ StartsWith(p, f \o <<Slash>>)

Over(new, old) ==
    [n \in DOMAIN new \cup DOMAIN old |-> IF n \in DOMAIN new THEN new[n] ELSE old[n]]
Put(store, name, object) == Over([n \in {name} |-> object], store)
Without(store, name) == [n \in DOMAIN store \ {name} |-> store[n]]

-----------------------------------------------------------------------------
(* What there is to do.                                                      *)

FromLocal == cmd.way = "upload"
ToLocal == cmd.way = "download"

Included(rel) == rel \notin cmd.excluded

\* The names of a side that are under its prefix; all of the local files are.
Side(store, isLocal, prefix) ==
    {n \in DOMAIN store : isLocal \/ StartsWith(n, prefix)}
SideRel(isLocal, prefix, n) == IF isLocal THEN n ELSE RelKey(prefix, n)
SideName(isLocal, prefix, rel) == IF isLocal THEN LocalPath(rel) ELSE JoinKey(prefix, rel)

SrcStore == IF FromLocal THEN local ELSE bucket
DstStore == IF ToLocal THEN local ELSE bucket
SrcName(rel) == SideName(FromLocal, cmd.src, rel)
DstName(rel) == SideName(ToLocal, cmd.dst, rel)
SrcRel(n) == SideRel(FromLocal, cmd.src, n)

\* The last part of a name, without a slash at its end (filepath.Base, path.Base).
Base(name) ==
    LET path == LocalPath(name)
        part == {i \in 0 .. Len(path) - 1 : i = 0 \/ path[i] = Slash}
    IN  Drop(path, CHOOSE i \in part : \A j \in part : j <= i)

\* cp and mv of one name: into a directory under its own name, else to the name
\* that is given.  Between prefixes the name is always the one given.
singleTargetKey ==
    IF cmd.dst = <<>> \/ EndsInSlash(cmd.dst) THEN cmd.dst \o Base(cmd.src) ELSE cmd.dst
resolveDownloadPath ==
    IF EndsInSlash(cmd.dst) \/ IsDir(cmd.dst) THEN JoinKey(cmd.dst, Base(cmd.src)) ELSE cmd.dst
SingleTarget ==
    CASE FromLocal -> singleTargetKey
      [] ToLocal -> resolveDownloadPath
      [] OTHER -> cmd.dst

\* cp and mv of a tree: one transfer for each name found under the source.
TreeTransfers(store) ==
    {[from |-> n, to |-> DstName(SrcRel(n))] :
        n \in {m \in Side(store, FromLocal, cmd.src) : Included(SrcRel(m))}}
TransfersFrom(store) ==
    IF cmd.tree THEN TreeTransfers(store)
    ELSE {[from |-> cmd.src, to |-> SingleTarget]}

\* enumerateLocal, enumerateS3: what has a name below the prefix, filtered.  The
\* mistake filters nothing.
EntriesUnfiltered(store, isLocal, prefix) ==
    {e \in {[rel |-> SideRel(isLocal, prefix, n), at |-> store[n]] :
               n \in Side(store, isLocal, prefix)} :
        e.rel # <<>>}
Entries(store, isLocal, prefix) ==
    {e \in {[rel |-> SideRel(isLocal, prefix, n), at |-> store[n]] :
               n \in Side(store, isLocal, prefix)} :
        e.rel # <<>> /\ Included(e.rel)}
SrcEntries == Entries(SrcStore, FromLocal, cmd.src)
DstEntries == Entries(DstStore, ToLocal, cmd.dst)
Rels(entries) == {e.rel : e \in entries}

\* Size first; then the source is newer, or with --exact-timestamps of another
\* time.  The mistake looks at the time alone.
NeedsCopyByTime(src, dst) ==
    IF cmd.exact THEN src.time # dst.time ELSE src.time > dst.time
NeedsCopy(src, dst) ==
    \/ src.size # dst.size
    \/ IF cmd.exact THEN src.time # dst.time ELSE src.time > dst.time

\* planSync, for an index of the destination: of two entries with one rel the
\* index keeps either.
Index(entries) == {f \in [Rels(entries) -> entries] : \A r \in Rels(entries) : f[r].rel = r}
ToCopy(index) ==
    {e.rel : e \in {s \in SrcEntries :
        s.rel \in DOMAIN index => NeedsCopy(s.at, index[s.rel].at)}}
ToDelete == IF cmd.delete THEN Rels(DstEntries) \ Rels(SrcEntries) ELSE {}

-----------------------------------------------------------------------------

\* A source has size 1 and time 2; a destination any size, and may be older or
\* newer, which matters to a sync only.
FilesAt(names, isSource) ==
    UNION {[S -> IF cmd.op = "sync" /\ ~ isSource THEN [data : {<<>>}, size : Sizes, time : 1 .. 3]
                 ELSE [data : {<<>>}, size : {1}, time : {2}]] : S \in SUBSET names}
\* Every object has contents of its own.
Own(store, tag) == [n \in DOMAIN store |-> [store[n] EXCEPT !.data = <<tag, n>>]]
\* A directory does not hold a file and a directory of one name.
Proper(store) ==
    \A f, g \in DOMAIN store : ~ StartsWith(g, f \o <<Slash>>)

Init ==
    /\ cmd \in Invocations
    /\ local \in {Own(s, "local") :
            s \in {t \in FilesAt(IF cmd.way = "copy" THEN {} ELSE Files, FromLocal) : Proper(t)}}
    /\ \E s \in FilesAt({k \in Keys : ~ FromLocal /\ StartsWith(k, cmd.src)}, TRUE),
          d \in FilesAt({k \in Keys : ~ ToLocal /\ StartsWith(k, cmd.dst)}, FALSE) :
          bucket = Own(Over(s, d), "bucket")
    /\ root \in BOOLEAN
    /\ ~ root => cmd.op = "sync" /\ ToLocal /\ local = [n \in {} |-> None]
    /\ todo = {} /\ dels = {} /\ hold = None
    /\ step = "idle" /\ exit = "none"
    /\ first = [local |-> local, bucket |-> bucket] /\ before = first
    /\ clock = 4 /\ round = 0 /\ faults = 0 /\ edits = 0 /\ edited = FALSE

Running == exit = "none" /\ step # "idle"
Fault == faults < MaxFaults /\ faults' = faults + 1
Fail == exit' = "error" /\ step' = "idle" /\ hold' = None /\ todo' = {} /\ dels' = {}

\* The listings, or the first of them fails; a run that ended may be repeated.
Starts ==
    /\ step = "idle" /\ round < MaxRounds /\ round' = round + 1
    /\ before' = [local |-> local, bucket |-> bucket] /\ edited' = FALSE
    /\ UNCHANGED <<cmd, local, bucket, first, clock, edits>>
Listed == step' = "next" /\ exit' = "none" /\ UNCHANGED <<faults, hold>>
\* runSyncDownload makes the directory before it reads anything.
MakesRoot == cmd.op = "sync" /\ ToLocal
ListCopies ==
    /\ Starts /\ cmd.op # "sync" /\ Listed /\ UNCHANGED root
    /\ todo' = TransfersFrom(SrcStore) /\ dels' = {}
PlanSync ==
    /\ Starts /\ cmd.op = "sync" /\ Listed
    /\ root' = IF MakesRoot THEN TRUE ELSE root
    /\ \E index \in Index(DstEntries) :
          todo' = {[from |-> SrcName(r), to |-> DstName(r)] : r \in ToCopy(index)}
    /\ dels' = {DstName(r) : r \in ToDelete}
ListFails ==
    /\ Starts /\ cmd.tree /\ Fault /\ Fail
    /\ root' = IF MakesRoot THEN TRUE ELSE root
Scan == ListCopies \/ PlanSync \/ ListFails

\* With --dryrun a transfer is only named.
Preview ==
    /\ Running /\ step = "next" /\ cmd.dryrun
    /\ exit' = "ok" /\ step' = "idle" /\ todo' = {} /\ dels' = {}
    /\ UNCHANGED <<cmd, local, bucket, root, hold, before, first, clock, counters>>

\* A transfer begins: the file is opened, or the destination created, which
\* empties what was there.  S3 refuses to copy an object onto itself.
Begin ==
    /\ Running /\ step = "next" /\ ~ cmd.dryrun
    /\ \E t \in todo :
        IF (ToLocal /\ ~ CanCreate(t.to)) \/ (~ ToLocal /\ t.from \notin DOMAIN SrcStore)
              \/ (cmd.way = "copy" /\ t.from = t.to)
        THEN Fail /\ UNCHANGED local
        ELSE /\ hold' = t /\ todo' = todo \ {t} /\ step' = "store"
             /\ local' = IF ToLocal
                         THEN Put(local, t.to, [data |-> <<>>, size |-> 0, time |-> clock])
                         ELSE local
             /\ UNCHANGED <<dels, exit>>
    /\ UNCHANGED <<cmd, bucket, root, before, first, clock, counters>>

\* What a transfer that succeeds leaves behind: uploadOne, downloadOne, copyOne.
Stored(name) == [SrcStore[name] EXCEPT !.time = clock]
Uploaded == FromLocal /\ bucket' = Put(bucket, hold.to, Stored(hold.from)) /\ UNCHANGED local
Downloaded == ToLocal /\ local' = Put(local, hold.to, Stored(hold.from)) /\ UNCHANGED bucket
Copied == cmd.way = "copy" /\ bucket' = Put(bucket, hold.to, Stored(hold.from)) /\ UNCHANGED local
\* A download that fails removes the file it began.
NotStored == local' = (IF ToLocal THEN Without(local, hold.to) ELSE local) /\ UNCHANGED bucket

\* What an mv does next.  The mistake removes the source of a transfer that
\* failed too.
Landed == step' = (IF cmd.op = "mv" THEN "remove" ELSE "next")
StoreUnchecked ==
    /\ Running /\ step = "store"
    /\ \/ /\ hold.from \in DOMAIN SrcStore
          /\ Uploaded \/ Downloaded \/ Copied
          /\ clock' = clock + 1
          /\ Landed /\ UNCHANGED <<todo, dels, hold, exit, faults>>
       \/ /\ Fault /\ Landed /\ NotStored
          /\ UNCHANGED <<todo, dels, hold, exit, clock>>
    /\ UNCHANGED <<cmd, root, before, first, round, edits, edited>>
Store ==
    /\ Running /\ step = "store"
    /\ \/ /\ hold.from \in DOMAIN SrcStore
          /\ Uploaded \/ Downloaded \/ Copied
          /\ clock' = clock + 1
          /\ Landed /\ UNCHANGED <<todo, dels, hold, exit, faults>>
       \/ /\ hold.from \in DOMAIN SrcStore => Fault
          /\ hold.from \notin DOMAIN SrcStore => UNCHANGED faults
          /\ NotStored /\ Fail /\ UNCHANGED clock
    /\ UNCHANGED <<cmd, root, before, first, round, edits, edited>>

\* uploadMoveOne: os.Remove fails on a file that is gone.
RemoveFile ==
    /\ Running /\ step = "remove" /\ FromLocal
    /\ \/ /\ hold.from \in DOMAIN local /\ local' = Without(local, hold.from)
          /\ step' = "next" /\ hold' = None /\ UNCHANGED <<todo, dels, exit, faults>>
       \/ /\ hold.from \in DOMAIN local => Fault
          /\ hold.from \notin DOMAIN local => UNCHANGED faults
          /\ Fail /\ UNCHANGED local
    /\ UNCHANGED <<cmd, bucket, root, before, first, clock, round, edits, edited>>

\* DeleteObject succeeds on an object that is gone; a call that failed may have
\* done its work.
RemoveObject ==
    /\ Running /\ step = "remove"
    /\ LET removed == Without(bucket, hold.from) IN
       \/ /\ bucket' = removed
          /\ step' = "next" /\ hold' = None /\ UNCHANGED <<todo, dels, exit, faults>>
       \/ Fault /\ Fail /\ bucket' \in {bucket, removed}
    /\ UNCHANGED <<cmd, local, root, before, first, clock, round, edits, edited>>
RemoveDownloaded == ToLocal /\ RemoveObject
RemoveCopied == cmd.way = "copy" /\ RemoveObject

\* The deletes of a sync come after its copies.
Deleting == Running /\ step = "next" /\ ~ cmd.dryrun /\ todo = {}
DeleteFile ==
    /\ Deleting /\ ToLocal
    /\ \E n \in dels :
       \/ /\ n \in DOMAIN local /\ local' = Without(local, n)
          /\ dels' = dels \ {n} /\ UNCHANGED <<todo, hold, step, exit, faults>>
       \/ /\ n \in DOMAIN local => Fault
          /\ n \notin DOMAIN local => UNCHANGED faults
          /\ Fail /\ UNCHANGED local
    /\ UNCHANGED <<cmd, bucket, root, before, first, clock, round, edits, edited>>
DeleteObject ==
    /\ Deleting /\ ~ ToLocal
    /\ \E n \in dels : LET removed == Without(bucket, n) IN
       \/ /\ bucket' = removed
          /\ dels' = dels \ {n} /\ UNCHANGED <<todo, hold, step, exit, faults>>
       \/ Fault /\ Fail /\ bucket' \in {bucket, removed}
    /\ UNCHANGED <<cmd, local, root, before, first, clock, round, edits, edited>>

\* finalizeCp, finalizeSync.
Finish ==
    /\ Running /\ step = "next" /\ ~ cmd.dryrun /\ todo = {} /\ dels = {}
    /\ exit' = "ok" /\ step' = "idle"
    /\ UNCHANGED <<cmd, local, bucket, root, todo, dels, hold, before, first, clock, counters>>

\* Others write a source anew, or remove it.
Edit ==
    /\ edits < MaxEdits /\ edits' = edits + 1 /\ edited' = TRUE
    /\ \E n \in Side(SrcStore, FromLocal, cmd.src), s \in Sizes \cup {0} :
        LET after == IF s = 0 THEN Without(SrcStore, n)
                     ELSE Put(SrcStore, n, [data |-> <<"edit", edits>>, size |-> s, time |-> clock])
        IN IF FromLocal THEN local' = after /\ UNCHANGED bucket
                        ELSE bucket' = after /\ UNCHANGED local
    /\ clock' = clock + 1
    /\ UNCHANGED <<cmd, root, work, exit, before, first, round, faults>>

Next ==
    \/ Scan \/ Preview \/ Begin \/ Store
    \/ RemoveFile \/ RemoveDownloaded \/ RemoveCopied
    \/ DeleteFile \/ DeleteObject
    \/ Finish \/ Edit

Spec == Init /\ [][Next]_vars

-----------------------------------------------------------------------------
(* Properties.                                                              *)

\* Before the command ran first.
AtFirst(isLocal) == IF isLocal THEN first.local ELSE first.bucket
Moved == {t \in TransfersFrom(AtFirst(FromLocal)) : t.from \in DOMAIN AtFirst(FromLocal)}
Held == {local[n].data : n \in DOMAIN local} \cup {bucket[n].data : n \in DOMAIN bucket}

\* The names the command moves, when it finds them.
Taken(n) ==
    IF cmd.tree THEN (FromLocal \/ StartsWith(n, cmd.src)) /\ Included(SrcRel(n))
    ELSE n = cmd.src
\* No two sources go to one name, and none goes where the command, repeated, would
\* take it for a source.
Separate ==
    \A t, u \in Moved :
        /\ t # u => t.to # u.to
        /\ cmd.way = "copy" => ~ Taken(t.to)

\* One object that was moved to a file and is moved again: opening the file
\* empties it before the object is found missing, and then it is removed.
MovedTwice == ~ cmd.tree /\ ToLocal /\ round > 1

\* At every moment of a move, also of one that failed on the way and was
\* repeated, every file that was to be moved is whole on one of the two sides:
\* the source goes only once the transfer has succeeded (mv.go:218, 314, 410).
MoveLosesNothing ==
    cmd.op = "mv" /\ Separate /\ edits = 0 /\ ~ MovedTwice =>
        \A t \in Moved : AtFirst(FromLocal)[t.from].data \in Held

\* The same of every move, which "moves every file under a directory/prefix"
\* (mv.go:97), whatever the names are.
EveryFileMoved ==
    cmd.op = "mv" /\ edits = 0 =>
        \A t \in Moved : AtFirst(FromLocal)[t.from].data \in Held

\* What this run found: a prefix that ends on the boundary of a directory, or one
\* without siblings; no name, under the source, of a directory; and two prefixes
\* none of which is within the other.
OnBoundary(isLocal, prefix) ==
    \/ isLocal \/ prefix = <<>> \/ EndsInSlash(prefix)
    \/ \A n \in Side(before.bucket, FALSE, prefix) : StartsWith(n, prefix \o <<Slash>>)
NoMarkers == \A n \in Side(before.bucket, FALSE, cmd.src) : ~ EndsInSlash(RelKey(cmd.src, n))
Disjoint ==
    cmd.way = "copy" => ~ StartsWith(cmd.src, cmd.dst) /\ ~ StartsWith(cmd.dst, cmd.src)

\* A sync that nobody disturbed leaves the destination as the source is: every
\* file is there with its contents, or was there with its size and no older;
\* with --delete nothing else is; and a second sync would find nothing to do -
\* except with --exact-timestamps, which copies again what it copied before, as
\* a copy has the time at which it was made.
SyncSettles ==
    cmd.op = "sync" /\ ~ cmd.dryrun /\ exit = "ok" /\ ~ edited
      /\ OnBoundary(FromLocal, cmd.src) /\ OnBoundary(ToLocal, cmd.dst)
      /\ Disjoint /\ (ToLocal => NoMarkers) =>
        LET was == IF ToLocal THEN before.local ELSE before.bucket IN
        /\ \A e \in SrcEntries :
            LET n == DstName(e.rel) IN
            /\ n \in DOMAIN DstStore
            /\ DstStore[n].data # e.at.data =>
                n \in DOMAIN was /\ was[n] = DstStore[n] /\ was[n].size = e.at.size
                    /\ was[n].time >= e.at.time
        /\ cmd.delete => Rels(DstEntries) \subseteq Rels(SrcEntries)
        /\ ~ cmd.exact => \A index \in Index(DstEntries) : ToCopy(index) = {}

\* What --exclude names is neither copied over, nor moved, nor deleted, on either
\* side: "an excluded key is neither copied nor deleted" (sync.go:85-86).  A download
\* stores what a directory's marker holds in a file of the directory's name, which
\* --exclude may name.
OnlyWhatWasAskedFor ==
    [][cmd.tree /\ Disjoint /\ (ToLocal => NoMarkers)
         /\ (step' # step \/ hold' # hold \/ dels' # dels) =>
        /\ \A n \in Side(DstStore, ToLocal, cmd.dst) :
              ~ Included(SideRel(ToLocal, cmd.dst, n))
              => n \in DOMAIN DstStore' /\ DstStore'[n] = DstStore[n]
        /\ \A n \in Side(SrcStore, FromLocal, cmd.src) :
              ~ Included(SrcRel(n))
              => n \in DOMAIN SrcStore' /\ SrcStore'[n] = SrcStore[n]]_vars

\* With --dryrun "no SDK calls or local filesystem changes are made" (sync.go:88-89).
DryRunTouchesNothing ==
    [][cmd.dryrun /\ edits' = edits => UNCHANGED <<local, bucket, root>>]_vars

=============================================================================
