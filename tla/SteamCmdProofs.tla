---------------------------- MODULE SteamCmdProofs ----------------------------
(***************************************************************************)
(* Machine-checked facts about SteamCmd, for any number of callers, mirrors, *)
(* members of the archive, lines of output, and deaths of the panel.  Two    *)
(* inductive invariants: one says what is on the disk while callers unpack   *)
(* over each other, the other follows every line from the pipe to onLine.    *)
(***************************************************************************)
EXTENDS SteamCmd, TLAPS, FiniteSetTheorems, SequenceTheorems

-----------------------------------------------------------------------------
(* What is on the disk *)

\* A caller that unpacks has begun the members up to its place; one that is
\* about to fetch has no file open.
PlaceInv ==
    \A c \in Callers :
        /\ At(c, "fetch") => loc[c].fd = 0
        /\ At(c, "fill") => loc[c].pos \in Blocks
        /\ Unpacking(c) =>
               /\ loc[c].pos \in Blocks
               /\ \A m \in Blocks : m < loc[c].pos => file[m] # "none"
        /\ At(c, "copy") => file[loc[c].pos] # "none"

\* Of every member that is there in part, the one who truncated it last is at work;
\* members are missing only while somebody unpacks, or nothing was unpacked.
MemberInv ==
    ~cut =>
        /\ \A m \in Blocks : file[m] = "part" =>
               \E c \in Callers : At(c, "copy") /\ loc[c].pos = m /\ loc[c].own
        /\ \/ \A m \in Blocks : file[m] = "none"
           \/ \A m \in Blocks : file[m] # "none"
           \/ \E c \in Callers : Unpacking(c)

DiskInv == TypeOK /\ PlaceInv /\ MemberInv

-----------------------------------------------------------------------------
(* The way of a line *)

Lines == Seq(Nat)
Execution == [long : Nat, child : {"on", "off"}, printed : Nat, pipe : Lines, hold : Lines,
              copying : BOOLEAN, closed : BOOLEAN, scanner : {"reading", "stopped", "done"},
              token : Lines, seen : Lines]

\* Between onLine and SteamCMD no line is lost, doubled or out of its order; the copy
\* ends last of all writers, and the scanner not before it has handed on its line.
Count(n)  == [i \in 1 .. n |-> i]
Stream(r) == (r.seen \o r.token) \o (r.hold \o r.pipe)
Sound(r) ==
    /\ Stream(r) = Count(r.printed)
    /\ ~r.copying => r.child = "off" /\ r.hold = <<>> /\ r.pipe = <<>>
    /\ r.scanner = "stopped" => r.hold # <<>>
    /\ r.scanner = "done" => r.token = <<>>

LineInv ==
    \A c \in Callers :
        /\ run[c] \in Execution /\ Sound(run[c])
        /\ At(c, "scan") => ~run[c].copying
        /\ At(c, "done") => ~run[c].copying /\ run[c].scanner = "done"

-----------------------------------------------------------------------------
(* Types *)

Places == {"idle", "stat", "fetch", "fill", "rename", "open", "member", "copy",
           "found", "launch", "run", "scan", "done", "failed"}

LEMMA Constants ==
    /\ Mirrors \in Nat /\ Mirrors >= 1 /\ Members \in Nat /\ Members >= 1 /\ Entry \in Blocks
    /\ Cardinality(Callers) \in Nat /\ Inodes \subseteq Nat /\ 0 \notin Inodes
    /\ Blocks = 1 .. Members
<1>1. Cardinality(Callers) \in Nat
  BY SteamCmdAssumption, FS_CardinalityType
<1> QED BY <1>1, SteamCmdAssumption DEF Blocks, Inodes

\* What a caller has at hand, and one that moves on.
LEMMA LocalIs ==
    Local = [at : Places, mirror : 0 .. Mirrors, fd : {0} \cup Inodes,
             pos : 0 .. Members + 1, own : BOOLEAN]
  BY DEF Local, Places

LEMMA LocalFacts ==
    ASSUME NEW l \in Local, NEW at \in Places
    PROVE  /\ l.at \in Places /\ l.mirror \in 0 .. Mirrors /\ l.fd \in {0} \cup Inodes
           /\ l.pos \in 0 .. Members + 1 /\ l.own \in BOOLEAN
           /\ [l EXCEPT !.at = at] \in Local
           /\ \A n \in 0 .. Mirrors : [l EXCEPT !.mirror = n] \in Local
           /\ \A n \in {0} \cup Inodes : [l EXCEPT !.fd = n] \in Local
           /\ \A n \in 0 .. Members + 1 : [l EXCEPT !.pos = n] \in Local
           /\ \A fd \in {0} \cup Inodes, n \in 0 .. Members + 1 :
                  [l EXCEPT !.at = at, !.fd = fd, !.pos = n] \in Local
  BY LocalIs

LEMMA FreshFacts ==
    ASSUME NEW at \in Places
    PROVE  /\ Fresh(at) \in Local /\ Fresh(at).at = at /\ Fresh(at).fd = 0
           /\ [Fresh(at) EXCEPT !.mirror = 1] \in Local
           /\ [Fresh(at) EXCEPT !.mirror = 1].at = at /\ [Fresh(at) EXCEPT !.mirror = 1].fd = 0
<1>2. 0 \in 0 .. Mirrors /\ 1 \in 0 .. Mirrors /\ 0 \in 0 .. Members + 1
  BY Constants
<1>3. Fresh(at) \in Local
  BY <1>2, LocalIs DEF Fresh
<1>4. [Fresh(at) EXCEPT !.mirror = 1] \in Local
  BY <1>2, <1>3, LocalFacts
<1> QED BY <1>3, <1>4 DEF Fresh

\* A caller moves; the others stay.
LEMMA SetFacts ==
    ASSUME TypeOK, NEW c \in Callers, NEW l \in Local, Set(c, l)
    PROVE  loc' \in [Callers -> Local] /\ loc'[c] = l /\ \A d \in Callers \ {c} : loc'[d] = loc[d]
  BY DEF TypeOK, Set

LEMMA MirrorFacts ==
    ASSUME TypeOK, NEW c \in Callers
    PROVE  /\ NextMirror(c) \in Local /\ NextMirror(c).at \in {"fetch", "failed"}
           /\ NextMirror(c).fd = 0
<1>1. loc[c] \in Local /\ loc[c].mirror \in 0 .. Mirrors
  BY DEF TypeOK, Local
<1>2. CASE loc[c].mirror < Mirrors
  <2>1. NextMirror(c) = [Fresh("fetch") EXCEPT !.mirror = loc[c].mirror + 1]
    BY <1>2 DEF NextMirror
  <2>2. loc[c].mirror + 1 \in 0 .. Mirrors
    BY <1>1, <1>2, Constants
  <2>3. Fresh("fetch") \in Local /\ "fetch" \in Places
    BY FreshFacts DEF Places
  <2>4. NextMirror(c) \in Local
    BY <2>1, <2>2, <2>3, LocalFacts
  <2> QED BY <2>1, <2>4 DEF Fresh
<1>3. CASE ~(loc[c].mirror < Mirrors)
  BY <1>3, FreshFacts DEF NextMirror, Places
<1> QED BY <1>2, <1>3

LEMMA LeastElement ==
    ASSUME NEW S, S \subseteq Nat, S # {}
    PROVE  \E x \in S : \A y \in S : x <= y
<1> DEFINE T == {0 .. x : x \in S}
           R == StrictSubsetOrdering(Nat)
<1>1. T \subseteq FiniteSubsetsOf(Nat)
  <2> SUFFICES ASSUME NEW x \in S PROVE 0 .. x \in FiniteSubsetsOf(Nat)
    OBVIOUS
  <2>1. x \in Int /\ 0 \in Int /\ 0 .. x \in SUBSET Nat
    OBVIOUS
  <2>2. IsFiniteSet(0 .. x)
    BY <2>1, FS_Interval
  <2> QED BY <2>1, <2>2 DEF FiniteSubsetsOf
<1>2. PICK t \in T : \A u \in T : ~(<<u, t>> \in R)
  <2>1. IsWellFoundedOn(R, FiniteSubsetsOf(Nat))
    BY FS_StrictSubsetOrderingWellFounded
  <2>2. T # {}
    OBVIOUS
  <2> HIDE DEF T, R
  <2> QED BY <1>1, <2>1, <2>2, WFMin
<1>3. PICK x \in S : t = 0 .. x
  BY <1>2
<1>4. ASSUME NEW y \in S PROVE x <= y
  <2> SUFFICES ASSUME y < x PROVE FALSE
    BY <1>3
  <2>1. 0 .. y \subseteq 0 .. x /\ x \in 0 .. x /\ x \notin 0 .. y
    OBVIOUS
  <2>2. 0 .. y \in T /\ 0 .. y \subseteq Nat /\ 0 .. x \subseteq Nat
    BY <1>4
  <2>3. <<0 .. y, t>> \in R
    BY <1>3, <2>1, <2>2 DEF StrictSubsetOrdering
  <2> QED BY <1>2, <2>2, <2>3
<1> QED BY <1>4

\* There is an inode for the next download: a caller that has no file open and the
\* archive leave one more than the others can hold.
LEMMA InodeLeft ==
    ASSUME TypeOK, NEW c \in Callers, loc[c].fd = 0, tmp = 0
    PROVE  NewInode \in Inodes
<1>1. Inodes \ Held # {}
  <2> SUFFICES ASSUME Inodes \subseteq Held PROVE FALSE
    OBVIOUS
  <2> DEFINE f == [n \in Inodes |-> IF n = archive THEN c ELSE CHOOSE d \in Callers : loc[d].fd = n]
  <2>1. ASSUME NEW n \in Inodes, n # archive PROVE f[n] \in Callers /\ loc[f[n]].fd = n
    <3>1. \E d \in Callers : loc[d].fd = n
      BY <2>1, Constants DEF Held
    <3> QED BY <2>1, <3>1
  <2>2. \A n \in Inodes : n = archive => f[n] = c
    OBVIOUS
  <2> HIDE DEF f
  <2>3. f \in [Inodes -> Callers]
    <3>1. f = [n \in Inodes |-> f[n]]
      BY DEF f
    <3> QED BY <2>1, <2>2, <3>1
  <2>4. \A n, m \in Inodes : f[n] = f[m] => n = m
    BY <2>1, <2>2, Constants
  <2>5. /\ IsFiniteSet(Inodes) /\ IsFiniteSet(Callers)
        /\ Cardinality(Callers) < Cardinality(Inodes)
    <3>1. Cardinality(Callers) + 2 \in Int /\ 1 \in Int
      BY Constants
    <3>2. IsFiniteSet(Inodes) /\ Cardinality(Inodes) = Cardinality(Callers) + 2
      BY <3>1, Constants, FS_Interval DEF Inodes
    <3> QED BY <3>2, Constants, SteamCmdAssumption
  <2>6. \E n, m \in Inodes : n # m /\ f[n] = f[m]
    BY <2>3, <2>5, FS_PigeonHole
  <2> QED BY <2>4, <2>6
<1>2. \E n \in Inodes \ Held : \A m \in Inodes \ Held : n <= m
  BY <1>1, Constants, LeastElement
<1> QED BY <1>2 DEF NewInode

LEMMA TypeStep ==
    ASSUME TypeOK, PlaceInv, [Next]_vars
    PROVE  TypeOK'
<1>t. /\ windows \in BOOLEAN /\ inode \in [Inodes -> SUBSET Blocks]
      /\ tmp \in {0} \cup Inodes /\ archive \in {0} \cup Inodes
      /\ file \in [Blocks -> {"none", "part", "whole"}]
      /\ cut \in BOOLEAN /\ loc \in [Callers -> Local]
  BY DEF TypeOK
<1> DEFINE DiskOK == /\ windows \in BOOLEAN /\ inode \in [Inodes -> SUBSET Blocks]
                     /\ tmp \in {0} \cup Inodes /\ archive \in {0} \cup Inodes
                     /\ file \in [Blocks -> {"none", "part", "whole"}]
                     /\ cut \in BOOLEAN
<1>d. UNCHANGED <<windows, diskVars>> => DiskOK'
  BY <1>t DEF diskVars
<1> SUFFICES DiskOK' /\ loc' \in [Callers -> Local]
  BY DEF TypeOK
<1>1. ASSUME NEW c \in Callers, Install(c) \/ UpdateCheck(c)
      PROVE  DiskOK' /\ loc' \in [Callers -> Local]
  <2>1. \E at \in Places : Set(c, Fresh(at))
    BY <1>1 DEF Install, UpdateCheck, Places
  <2>2. UNCHANGED <<windows, diskVars>>
    BY <1>1 DEF Install, UpdateCheck
  <2> QED BY <1>d, <2>1, <2>2, FreshFacts, SetFacts
<1>2. ASSUME NEW c \in Callers, EnsureNext(c)
      PROVE  DiskOK' /\ loc' \in [Callers -> Local]
  <2>l. loc[c] \in Local
    BY <1>t
  <2>m. NextMirror(c) \in Local
    BY MirrorFacts
  <2>1. CASE EnsureStat(c)
    <3>1. Fresh("launch") \in Local /\ [Fresh("fetch") EXCEPT !.mirror = 1] \in Local
      BY FreshFacts DEF Places
    <3>2. PICK l \in Local : Set(c, l)
      BY <2>1, <3>1 DEF EnsureStat
    <3> QED BY <1>d, <2>1, <3>2, SetFacts DEF EnsureStat
  <2>2. CASE FetchFails(c)
    BY <1>d, <2>2, <2>m, SetFacts DEF FetchFails
  <2>3. CASE Fetch(c)
    <3>1. PICK n : /\ n = IF tmp # 0 THEN tmp ELSE NewInode
                   /\ tmp' = n /\ inode' = [inode EXCEPT ![n] = {}]
                   /\ Set(c, [loc[c] EXCEPT !.at = "fill", !.fd = n, !.pos = 1])
      BY <2>3 DEF Fetch
    <3>2. n \in Inodes
      BY <1>t, <2>3, <3>1, InodeLeft DEF Fetch, PlaceInv
    <3>3. [loc[c] EXCEPT !.at = "fill", !.fd = n, !.pos = 1] \in Local
      <4>1. "fill" \in Places /\ 1 \in 0 .. Members + 1
        BY Constants DEF Places
      <4> QED BY <2>l, <3>2, <4>1, LocalFacts
    <3>4. loc' \in [Callers -> Local]
      BY <3>1, <3>3, SetFacts
    <3>5. inode' \in [Inodes -> SUBSET Blocks] /\ tmp' \in Inodes
      BY <1>t, <3>1, <3>2
    <3> QED BY <1>t, <2>3, <3>4, <3>5 DEF Fetch
  <2>4. CASE Fill(c)
    <3>1. /\ loc[c].pos \in Blocks /\ loc[c].pos + 1 \in 0 .. Members + 1
          /\ "fill" \in Places /\ "rename" \in Places
      BY <2>4, Constants DEF Fill, PlaceInv, Places
    <3>2. \A at \in Places : [loc[c] EXCEPT !.pos = loc[c].pos + 1, !.at = at] \in Local
      BY <2>l, <3>1, LocalIs
    <3>3. \E at \in Places : Set(c, [loc[c] EXCEPT !.pos = loc[c].pos + 1, !.at = at])
      BY <2>4, <3>1 DEF Fill
    <3>4. inode' \in [Inodes -> SUBSET Blocks]
      BY <1>t, <2>4, <3>1 DEF Fill
    <3>5. loc' \in [Callers -> Local]
      BY <3>2, <3>3, SetFacts
    <3> QED BY <1>t, <2>4, <3>4, <3>5 DEF Fill
  <2>5. CASE FillFails(c)
    <3>1. tmp' \in {0} \cup Inodes
      BY <1>t, <2>5 DEF FillFails
    <3> QED BY <1>t, <2>5, <2>m, <3>1, SetFacts DEF FillFails
  <2>6. CASE Rename(c)
    <3>1. [loc[c] EXCEPT !.at = "open", !.fd = 0, !.pos = 0] \in Local
      <4>1. "open" \in Places /\ 0 \in 0 .. Members + 1
        BY Constants DEF Places
      <4> QED BY <2>l, <4>1, LocalFacts
    <3>2. tmp' \in {0} \cup Inodes /\ archive' \in {0} \cup Inodes
      BY <1>t, <2>6 DEF Rename
    <3>3. loc' \in [Callers -> Local]
      BY <2>6, <2>m, <3>1, SetFacts DEF Rename
    <3> QED BY <1>t, <2>6, <3>2, <3>3 DEF Rename
  <2>7. CASE Open(c)
    <3>1. [loc[c] EXCEPT !.at = "member", !.fd = archive, !.pos = 1] \in Local
      <4>1. "member" \in Places /\ 1 \in 0 .. Members + 1
        BY Constants DEF Places
      <4> QED BY <1>t, <2>l, <4>1, LocalFacts
    <3> QED BY <1>d, <2>7, <2>m, <3>1, SetFacts DEF Open
  <2>8. CASE Member(c)
    <3>1. \A d \in Callers : /\ [loc[d] EXCEPT !.at = "copy", !.own = TRUE] \in Local
                             /\ [loc[d] EXCEPT !.own = FALSE] \in Local
      BY <1>t, LocalIs DEF Places
    <3>2. loc' \in [Callers -> Local]
      BY <1>t, <2>8, <3>1 DEF Member
    <3>3. file' \in [Blocks -> {"none", "part", "whole"}]
      BY <1>t, <2>8 DEF Member
    <3> QED BY <1>t, <2>8, <3>2, <3>3 DEF Member
  <2>9. CASE Copy(c)
    <3>1. loc[c].pos \in Blocks
      BY <2>9 DEF Copy, PlaceInv, Unpacking, At
    <3>2. file' \in [Blocks -> {"none", "part", "whole"}]
      BY <1>t, <2>9, <3>1 DEF Copy
    <3>3. [loc[c] EXCEPT !.at = "found", !.fd = 0] \in Local
      BY <2>l, LocalIs DEF Places
    <3>4. loc[c].pos # Members => loc[c].pos + 1 \in 0 .. Members + 1
      BY <3>1, Constants
    <3>5. loc[c].pos # Members => [loc[c] EXCEPT !.at = "member", !.pos = @ + 1] \in Local
      BY <2>l, <3>4, LocalIs DEF Places
    <3>6. loc' \in [Callers -> Local]
      BY <2>9, <3>3, <3>5, SetFacts DEF Copy
    <3> QED BY <1>t, <2>9, <3>2, <3>6 DEF Copy
  <2>10. CASE CopyFails(c)
    BY <1>t, <2>10, <2>m, SetFacts DEF CopyFails
  <2>11. CASE Found(c)
    <3>1. Fresh("launch") \in Local
      BY FreshFacts DEF Places
    <3>2. archive' \in {0} \cup Inodes
      BY <1>t, <2>11 DEF Found
    <3>3. loc' \in [Callers -> Local]
      BY <2>11, <2>m, <3>1, SetFacts DEF Found
    <3> QED BY <1>t, <2>11, <3>2, <3>3 DEF Found
  <2> QED BY <1>2, <2>1, <2>2, <2>3, <2>4, <2>5, <2>6, <2>7, <2>8, <2>9, <2>10, <2>11 DEF EnsureNext
<1>3. ASSUME NEW c \in Callers, Launch(c) \/ Waits(c) \/ RunReturns(c)
      PROVE  DiskOK' /\ loc' \in [Callers -> Local]
  <2>1. \A at \in Places : [loc[c] EXCEPT !.at = at] \in Local
    BY <1>t, LocalIs
  <2>2. \E at \in Places : Set(c, [loc[c] EXCEPT !.at = at])
    BY <1>3 DEF Launch, Waits, RunReturns, Move, Places
  <2>3. UNCHANGED <<windows, diskVars>>
    BY <1>3 DEF Launch, Waits, RunReturns
  <2> QED BY <1>d, <2>1, <2>2, <2>3, SetFacts
<1>4. ASSUME NEW c \in Callers, \/ Prints(c) \/ ChildEnds(c) \/ Copies(c)
                                \/ Scans(c) \/ OnLine(c) \/ ScanEnds(c)
      PROVE  DiskOK' /\ loc' \in [Callers -> Local]
  <2>1. UNCHANGED <<windows, diskVars, loc>>
    BY <1>4 DEF Prints, ChildEnds, Copies, Scans, OnLine, ScanEnds
  <2> QED BY <1>d, <1>t, <2>1
<1>5. CASE Crash
  <2>1. Fresh("idle") \in Local
    BY FreshFacts DEF Places
  <2>2. loc' \in [Callers -> Local]
    BY <1>5, <2>1 DEF Crash
  <2>3. cut' \in BOOLEAN
    BY <1>5, <1>t DEF Crash
  <2> QED BY <1>5, <1>t, <2>2, <2>3 DEF Crash
<1>6. CASE UNCHANGED vars
  BY <1>6, <1>d, <1>t DEF vars
<1> QED BY <1>1, <1>2, <1>3, <1>4, <1>5, <1>6 DEF Next, RunNext

-----------------------------------------------------------------------------
(* The disk *)

\* A caller that does not unpack goes on without it.
LEMMA CalmStep ==
    ASSUME PlaceInv, MemberInv, file' = file, cut' = cut, NEW c \in Callers, ~Unpacking(c),
           \A d \in Callers \ {c} : loc'[d] = loc[d],
           loc'[c].at \notin {"member", "copy"},
           loc'[c].at = "fetch" => loc'[c].fd = 0,
           loc'[c].at = "fill" => loc'[c].pos \in Blocks
    PROVE  PlaceInv' /\ MemberInv'
<1>1. PlaceInv'
  BY DEF PlaceInv, At, Unpacking
<1>2. \A d \in Callers : Unpacking(d) => d # c /\ Unpacking(d)'
  BY DEF Unpacking
<1>3. \A d \in Callers : At(d, "copy") => d # c /\ At(d, "copy")'
  BY DEF Unpacking, At
<1>4. MemberInv'
  BY <1>2, <1>3 DEF MemberInv
<1> QED BY <1>1, <1>4

LEMMA DiskStep ==
    ASSUME DiskInv, TypeOK', [Next]_vars
    PROVE  PlaceInv' /\ MemberInv'
<1>i. TypeOK /\ PlaceInv /\ MemberInv
  BY DEF DiskInv
<1>t. /\ loc \in [Callers -> Local] /\ file \in [Blocks -> {"none", "part", "whole"}]
      /\ cut \in BOOLEAN
      /\ \A c \in Callers : loc[c].pos \in Int
  <2>1. \A l \in Local : l.pos \in 0 .. Members + 1
    BY LocalIs
  <2>2. 0 .. Members + 1 \subseteq Int
    BY Constants
  <2>3. loc \in [Callers -> Local]
    BY <1>i DEF TypeOK
  <2>4. \A c \in Callers : loc[c].pos \in Int
    BY <2>1, <2>2, <2>3
  <2> QED BY <1>i, <2>4 DEF TypeOK
<1>u. UNCHANGED <<file, cut, loc>> => PlaceInv' /\ MemberInv'
  BY <1>i DEF PlaceInv, MemberInv, At, Unpacking
<1>f. \A at \in Places : Fresh(at) \in Local /\ Fresh(at).at = at /\ Fresh(at).fd = 0
  BY FreshFacts
<1>1. ASSUME NEW c \in Callers, Install(c) \/ UpdateCheck(c)
      PROVE  PlaceInv' /\ MemberInv'
  <2>1. /\ \E at \in {"stat", "launch", "failed"} : Set(c, Fresh(at))
        /\ ~Unpacking(c) /\ file' = file /\ cut' = cut
    BY <1>1 DEF Install, UpdateCheck, Unpacking, At, diskVars
  <2>2. loc'[c].at \in {"stat", "launch", "failed"} /\ \A d \in Callers \ {c} : loc'[d] = loc[d]
    BY <1>f, <1>i, <2>1, SetFacts DEF Places
  <2> QED BY <1>i, <2>1, <2>2, CalmStep
<1>2. ASSUME NEW c \in Callers, EnsureNext(c)
      PROVE  PlaceInv' /\ MemberInv'
  <2>l. loc[c] \in Local
    BY <1>t
  <2>m. /\ NextMirror(c) \in Local /\ NextMirror(c).at \in {"fetch", "failed"}
        /\ NextMirror(c).fd = 0
    BY <1>i, MirrorFacts
  <2>c. ASSUME NEW l \in Local, Set(c, l), file' = file, cut' = cut, ~Unpacking(c),
               l.at \notin {"member", "copy"}, l.at = "fetch" => l.fd = 0,
               l.at = "fill" => l.pos \in Blocks
        PROVE  PlaceInv' /\ MemberInv'
    <3>1. loc'[c] = l /\ \A d \in Callers \ {c} : loc'[d] = loc[d]
      BY <1>i, <2>c, SetFacts
    <3> QED BY <1>i, <2>c, <3>1, CalmStep
  <2>n. Set(c, NextMirror(c)) /\ file' = file /\ cut' = cut /\ ~Unpacking(c) =>
            PlaceInv' /\ MemberInv'
    BY <2>c, <2>m
  <2>1. CASE EnsureStat(c)
    <3>1. /\ Fresh("launch") \in Local /\ Fresh("launch").at = "launch"
          /\ [Fresh("fetch") EXCEPT !.mirror = 1] \in Local
          /\ [Fresh("fetch") EXCEPT !.mirror = 1].at = "fetch"
          /\ [Fresh("fetch") EXCEPT !.mirror = 1].fd = 0
      BY FreshFacts DEF Places
    <3>2. PICK l \in Local : Set(c, l) /\ l.at \in {"launch", "fetch"} /\ (l.at = "fetch" => l.fd = 0)
      BY <2>1, <3>1 DEF EnsureStat
    <3>3. file' = file /\ cut' = cut /\ ~Unpacking(c)
      BY <2>1 DEF EnsureStat, At, Unpacking, diskVars
    <3> QED BY <2>c, <3>2, <3>3
  <2>2. CASE FetchFails(c) \/ FillFails(c)
    BY <2>2, <2>n DEF FetchFails, FillFails, At, Unpacking, diskVars
  <2>3. CASE Fetch(c)
    <3>1. PICK n : Set(c, [loc[c] EXCEPT !.at = "fill", !.fd = n, !.pos = 1])
      BY <2>3 DEF Fetch
    <3>2. loc'[c] = [loc[c] EXCEPT !.at = "fill", !.fd = n, !.pos = 1]
          /\ \A d \in Callers \ {c} : loc'[d] = loc[d]
      BY <1>t, <3>1 DEF Set
    <3>3. loc'[c].at = "fill" /\ loc'[c].pos = 1
      BY <2>l, <3>2 DEF Local
    <3>4. file' = file /\ cut' = cut /\ ~Unpacking(c) /\ 1 \in Blocks
      BY <2>3, Constants DEF Fetch, At, Unpacking
    <3> QED BY <1>i, <3>2, <3>3, <3>4, CalmStep
  <2>4. CASE Fill(c)
    <3>1. PICK at \in {"fill", "rename"} :
              /\ Set(c, [loc[c] EXCEPT !.pos = loc[c].pos + 1, !.at = at])
              /\ at = "fill" => loc[c].pos # Members
      BY <2>4 DEF Fill
    <3>2. loc'[c] = [loc[c] EXCEPT !.pos = loc[c].pos + 1, !.at = at]
          /\ \A d \in Callers \ {c} : loc'[d] = loc[d]
      BY <1>t, <3>1 DEF Set
    <3>3. loc'[c].at = at /\ loc'[c].pos = loc[c].pos + 1
      BY <2>l, <3>2 DEF Local
    <3>4. file' = file /\ cut' = cut /\ ~Unpacking(c) /\ loc[c].pos \in Blocks
      BY <2>4, <1>i DEF Fill, At, Unpacking, PlaceInv
    <3>5. at = "fill" => loc[c].pos + 1 \in Blocks
      BY <3>1, <3>4, Constants
    <3> QED BY <1>i, <3>1, <3>2, <3>3, <3>4, <3>5, CalmStep
  <2>5. CASE Rename(c)
    <3>1. [loc[c] EXCEPT !.at = "open", !.fd = 0, !.pos = 0] \in Local
      <4>1. "open" \in Places /\ 0 \in 0 .. Members + 1
        BY Constants DEF Places
      <4> QED BY <2>l, <4>1, LocalFacts
    <3>2. [loc[c] EXCEPT !.at = "open", !.fd = 0, !.pos = 0].at = "open"
      BY <2>l DEF Local
    <3>3. file' = file /\ cut' = cut /\ ~Unpacking(c)
      BY <2>5 DEF Rename, At, Unpacking
    <3> QED BY <2>5, <2>c, <2>n, <3>1, <3>2, <3>3 DEF Rename
  <2>6. CASE Open(c)
    <3>0. file' = file /\ cut' = cut /\ ~Unpacking(c)
      BY <2>6 DEF Open, At, Unpacking, diskVars
    <3>1. CASE Set(c, NextMirror(c))
      BY <2>n, <3>0, <3>1
    <3>2. CASE Set(c, [loc[c] EXCEPT !.at = "member", !.fd = archive, !.pos = 1])
      <4>1. loc'[c] = [loc[c] EXCEPT !.at = "member", !.fd = archive, !.pos = 1]
            /\ \A d \in Callers \ {c} : loc'[d] = loc[d]
        BY <1>t, <3>2 DEF Set
      <4>2. loc'[c].at = "member" /\ loc'[c].pos = 1
        BY <2>l, <4>1 DEF Local
      <4>3. 1 \in Blocks /\ \A m \in Blocks : ~(m < 1)
        BY Constants
      <4>4. PlaceInv'
        BY <1>i, <3>0, <4>1, <4>2, <4>3 DEF PlaceInv, At, Unpacking
      <4>5. Unpacking(c)'
        BY <4>2 DEF Unpacking
      <4>6. \A d \in Callers : At(d, "copy") => d # c /\ At(d, "copy")'
        BY <3>0, <4>1 DEF Unpacking, At
      <4> QED BY <1>i, <3>0, <4>1, <4>4, <4>5, <4>6 DEF MemberInv
    <3> QED BY <2>6, <3>1, <3>2 DEF Open
  <2>7. CASE Member(c)
    <3>0. PICK p : p = loc[c].pos
      OBVIOUS
    <3>1. /\ p \in Blocks /\ loc[c].at = "member" /\ \A m \in Blocks : m < p => file[m] # "none"
      BY <1>i, <2>7, <3>0 DEF Member, At, Unpacking, PlaceInv
    <3>2. /\ file'[p] = "part" /\ \A m \in Blocks \ {p} : file'[m] = file[m]
          /\ cut' = cut
      BY <1>t, <2>7, <3>0, <3>1 DEF Member
    <3>3. loc'[c] = [loc[c] EXCEPT !.at = "copy", !.own = TRUE]
      BY <2>7 DEF Member
    <3>4. loc'[c].at = "copy" /\ loc'[c].own = TRUE /\ loc'[c].pos = p
      BY <2>l, <3>0, <3>3 DEF Local
    <3>5. \A d \in Callers \ {c} :
              /\ loc'[d].at = loc[d].at /\ loc'[d].pos = loc[d].pos /\ loc'[d].fd = loc[d].fd
              /\ loc[d].pos # p => loc'[d].own = loc[d].own
      BY <1>t, <2>7, <3>0 DEF Member, Local
    <3>6. \A m \in Blocks : file[m] # "none" => file'[m] # "none"
      BY <3>2
    <3>7. PlaceInv'
      BY <1>i, <3>0, <3>1, <3>2, <3>4, <3>5, <3>6 DEF PlaceInv, At, Unpacking
    <3>8. ASSUME ~cut', NEW m \in Blocks, file'[m] = "part"
          PROVE  \E d \in Callers : At(d, "copy")' /\ loc'[d].pos = m /\ loc'[d].own
      <4>1. CASE m = p
        BY <3>4, <4>1 DEF At
      <4>2. CASE m # p
        <5>1. PICK d \in Callers : At(d, "copy") /\ loc[d].pos = m /\ loc[d].own
          BY <1>i, <3>2, <3>8, <4>2 DEF MemberInv
        <5>2. d # c
          BY <3>1, <5>1 DEF At
        <5> QED BY <3>5, <4>2, <5>1, <5>2 DEF At
      <4> QED BY <4>1, <4>2
    <3>9. Unpacking(c)'
      BY <3>4 DEF Unpacking
    <3> QED BY <3>7, <3>8, <3>9 DEF MemberInv
  <2>8. CASE Copy(c)
    <3>0. PICK p : p = loc[c].pos
      OBVIOUS
    <3>1. /\ p \in Blocks /\ loc[c].at = "copy" /\ \A m \in Blocks : m < p => file[m] # "none"
          /\ file[p] # "none"
      BY <1>i, <2>8, <3>0 DEF Copy, At, Unpacking, PlaceInv
    <3>2. /\ file'[p] = "whole" \/ (~loc[c].own /\ file'[p] = file[p])
          /\ \A m \in Blocks \ {p} : file'[m] = file[m]
          /\ cut' = cut
      BY <1>t, <2>8, <3>0, <3>1 DEF Copy
    <3>3. \A m \in Blocks : file'[m] = "none" <=> file[m] = "none"
      BY <3>1, <3>2
    <3>4. \A d \in Callers \ {c} : loc'[d] = loc[d]
      BY <1>t, <2>8 DEF Copy, Set
    <3>5. \/ p = Members /\ loc'[c].at = "found"
          \/ p # Members /\ loc'[c].at = "member" /\ loc'[c].pos = p + 1
      <4>1. \/ p = Members /\ loc'[c] = [loc[c] EXCEPT !.at = "found", !.fd = 0]
            \/ p # Members /\ loc'[c] = [loc[c] EXCEPT !.at = "member", !.pos = p + 1]
        BY <1>t, <2>8, <3>0 DEF Copy, Set
      <4> QED BY <2>l, <4>1 DEF Local
    <3>6. p # Members => p + 1 \in Blocks /\ \A m \in Blocks : m < p + 1 => m < p \/ m = p
      BY <3>1, Constants
    <3>7. PlaceInv'
      BY <1>i, <3>1, <3>3, <3>4, <3>5, <3>6 DEF PlaceInv, At, Unpacking
    <3>8. ASSUME ~cut', NEW m \in Blocks, file'[m] = "part"
          PROVE  \E d \in Callers : At(d, "copy")' /\ loc'[d].pos = m /\ loc'[d].own
      <4>1. file[m] = "part" /\ (m = p => ~loc[c].own)
        BY <3>2, <3>8
      <4>2. PICK d \in Callers : At(d, "copy") /\ loc[d].pos = m /\ loc[d].own
        BY <1>i, <3>2, <3>8, <4>1 DEF MemberInv
      <4>3. d # c
        BY <3>0, <4>1, <4>2
      <4> QED BY <3>4, <4>2, <4>3 DEF At
    <3>9. p = Members => \A m \in Blocks : file'[m] # "none"
      BY <3>1, <3>3, Constants
    <3>10. p # Members => Unpacking(c)'
      BY <3>5 DEF Unpacking
    <3> QED BY <3>7, <3>8, <3>9, <3>10 DEF MemberInv
  <2>9. CASE CopyFails(c)
    <3>1. file' = file /\ cut' = TRUE /\ Set(c, NextMirror(c)) /\ loc[c].at = "copy"
      BY <2>9 DEF CopyFails, At
    <3>2. loc'[c] = NextMirror(c) /\ \A d \in Callers \ {c} : loc'[d] = loc[d]
      BY <1>t, <3>1 DEF Set
    <3>3. PlaceInv'
      BY <1>i, <2>m, <3>1, <3>2 DEF PlaceInv, At, Unpacking
    <3> QED BY <3>1, <3>3 DEF MemberInv
  <2>10. CASE Found(c)
    <3>1. Fresh("launch") \in Local /\ Fresh("launch").at = "launch"
      BY FreshFacts DEF Places
    <3>2. file' = file /\ cut' = cut /\ ~Unpacking(c)
      BY <2>10 DEF Found, At, Unpacking
    <3> QED BY <2>10, <2>c, <2>n, <3>1, <3>2 DEF Found
  <2> QED BY <1>2, <2>1, <2>2, <2>3, <2>4, <2>5, <2>6, <2>7, <2>8, <2>9, <2>10 DEF EnsureNext
<1>3. ASSUME NEW c \in Callers, Launch(c) \/ Waits(c) \/ RunReturns(c)
      PROVE  PlaceInv' /\ MemberInv'
  <2>1. /\ \E at \in {"run", "scan", "done"} : Set(c, [loc[c] EXCEPT !.at = at])
        /\ file' = file /\ cut' = cut /\ ~Unpacking(c)
    BY <1>3 DEF Launch, Waits, RunReturns, Move, At, Unpacking, diskVars
  <2>2. /\ \E at \in {"run", "scan", "done"} : loc'[c] = [loc[c] EXCEPT !.at = at]
        /\ \A d \in Callers \ {c} : loc'[d] = loc[d]
    BY <1>t, <2>1 DEF Set
  <2>3. loc'[c].at \in {"run", "scan", "done"}
    BY <1>t, <2>2 DEF Local
  <2> QED BY <1>i, <2>1, <2>2, <2>3, CalmStep
<1>4. ASSUME NEW c \in Callers, \/ Prints(c) \/ ChildEnds(c) \/ Copies(c)
                                \/ Scans(c) \/ OnLine(c) \/ ScanEnds(c)
      PROVE  PlaceInv' /\ MemberInv'
  <2>1. UNCHANGED <<diskVars, loc>>
    BY <1>4 DEF Prints, ChildEnds, Copies, Scans, OnLine, ScanEnds
  <2> QED BY <1>u, <2>1 DEF diskVars
<1>5. CASE Crash
  <2>1. /\ file' = file /\ cut' = (cut \/ \E c \in Callers : Unpacking(c))
        /\ \A c \in Callers : loc'[c] = Fresh("idle")
    BY <1>5 DEF Crash
  <2>2. \A c \in Callers : loc'[c].at = "idle"
    BY <1>f, <2>1 DEF Places
  <2>3. PlaceInv'
    BY <2>2 DEF PlaceInv, At, Unpacking
  <2>4. ASSUME ~cut' PROVE ~cut /\ \A c \in Callers : ~Unpacking(c) /\ ~At(c, "copy")
    BY <2>1, <2>4 DEF Unpacking, At
  <2> QED BY <1>i, <2>1, <2>3, <2>4 DEF MemberInv
<1>6. CASE UNCHANGED vars
  BY <1>6, <1>u DEF vars, diskVars
<1> QED BY <1>1, <1>2, <1>3, <1>4, <1>5, <1>6 DEF Next, RunNext
-----------------------------------------------------------------------------
(* Lemmas about lines *)

LEMMA CountFacts ==
    ASSUME NEW n \in Nat
    PROVE  Count(n) \in Lines /\ Append(Count(n), n + 1) = Count(n + 1)
<1>1. Count(n) \in Lines /\ Len(Count(n)) = n /\ Count(n + 1) \in Lines /\ Len(Count(n + 1)) = n + 1
  BY DEF Count, Lines
<1>2. Append(Count(n), n + 1) \in Lines /\ Len(Append(Count(n), n + 1)) = n + 1
  BY <1>1 DEF Lines
<1>3. ASSUME NEW i \in 1 .. n + 1
      PROVE  Append(Count(n), n + 1)[i] = Count(n + 1)[i]
  BY <1>1 DEF Count, Lines
<1> QED BY <1>1, <1>2, <1>3, SeqEqual DEF Lines

LEMMA Joined ==
    <<>> \in Lines /\ \A a, b \in Lines : a \o b \in Lines
  BY DEF Lines

LEMMA JoinedToNone ==
    \A a \in Lines : a \o <<>> = a /\ <<>> \o a = a
  BY ConcatEmptySeq DEF Lines

LEMMA JoinedInAnyOrder ==
    \A a, b, c \in Lines : (a \o b) \o c = a \o (b \o c)
<1> SUFFICES ASSUME NEW a \in Lines, NEW b \in Lines, NEW c \in Lines
             PROVE  (a \o b) \o c = a \o (b \o c)
  OBVIOUS
<1>1. /\ a \o b \in Lines /\ b \o c \in Lines
      /\ (a \o b) \o c \in Lines /\ a \o (b \o c) \in Lines
  BY Joined
<1>2. /\ Len(a) \in Nat /\ Len(b) \in Nat /\ Len(c) \in Nat
      /\ Len(a \o b) = Len(a) + Len(b) /\ Len(b \o c) = Len(b) + Len(c)
  BY DEF Lines
<1>3. /\ Len((a \o b) \o c) = Len(a) + Len(b) + Len(c)
      /\ Len(a \o (b \o c)) = Len(a) + Len(b) + Len(c)
  BY <1>1, <1>2 DEF Lines
<1>4. ASSUME NEW i \in 1 .. Len((a \o b) \o c)
      PROVE  ((a \o b) \o c)[i] = (a \o (b \o c))[i]
  BY <1>1, <1>2, <1>3 DEF Lines
<1> QED BY <1>1, <1>3, <1>4, SeqEqual DEF Lines

LEMMA Appended ==
    \A a \in Lines, n \in Nat :
        <<n>> \in Lines /\ Append(a, n) \in Lines /\ Append(a, n) = a \o <<n>>
<1> SUFFICES ASSUME NEW a \in Lines, NEW n \in Nat
             PROVE  <<n>> \in Lines /\ Append(a, n) \in Lines /\ Append(a, n) = a \o <<n>>
  OBVIOUS
<1>1. <<n>> \in Lines /\ Append(a, n) \in Lines
  BY DEF Lines
<1>2. a \in Seq(Nat)
  BY DEF Lines
<1>3. Append(a, n) = a \o <<n>>
  BY <1>2, AppendIsConcat, Zenon
<1> QED BY <1>1, <1>3

LEMMA Split ==
    \A p \in Lines : p # <<>> =>
        /\ Tail(p) \in Lines /\ <<Head(p)>> \in Lines /\ <<Head(p)>> # <<>>
        /\ p = <<Head(p)>> \o Tail(p)
<1> SUFFICES ASSUME NEW p \in Lines, p # <<>>
             PROVE  /\ Tail(p) \in Lines /\ <<Head(p)>> \in Lines /\ <<Head(p)>> # <<>>
                    /\ p = <<Head(p)>> \o Tail(p)
  OBVIOUS
<1>1. Tail(p) \in Lines /\ <<Head(p)>> \in Lines /\ <<Head(p)>> # <<>>
  BY HeadTailProperties DEF Lines
<1>2. Len(p) \in Nat /\ Len(p) >= 1
  BY DEF Lines
<1>3. /\ <<Head(p)>> \o Tail(p) \in Lines
      /\ Len(<<Head(p)>> \o Tail(p)) = Len(p)
  BY <1>1, <1>2, ConcatProperties, HeadTailProperties DEF Lines
<1>4. ASSUME NEW i \in 1 .. Len(p) PROVE p[i] = (<<Head(p)>> \o Tail(p))[i]
  BY <1>1, <1>2 DEF Lines
<1>5. p = <<Head(p)>> \o Tail(p)
  BY <1>3, <1>4, SeqEqual DEF Lines
<1> QED BY <1>1, <1>5

\* What the scanner takes over, and what it hands on, stays where it is in the stream.
LEMMA Handed ==
    \A s, h, p \in Lines : (s \o <<>>) \o (h \o p) = (s \o h) \o (<<>> \o p)
<1> SUFFICES ASSUME NEW s \in Lines, NEW h \in Lines, NEW p \in Lines
             PROVE  (s \o <<>>) \o (h \o p) = (s \o h) \o (<<>> \o p)
  OBVIOUS
<1>1. s \o <<>> = s /\ <<>> \o p = p
  BY JoinedToNone, Zenon
<1>2. s \o (h \o p) = (s \o h) \o p
  BY JoinedInAnyOrder, Zenon
<1> QED BY <1>1, <1>2, Zenon


\* Executions, one step each.
LEMMA RunFacts ==
    ASSUME NEW r \in Execution
    PROVE  /\ r.pipe \in Lines /\ r.hold \in Lines /\ r.token \in Lines /\ r.seen \in Lines
           /\ r.printed \in Nat /\ r.long \in Nat /\ r.copying \in BOOLEAN
           /\ r.child \in {"on", "off"} /\ r.scanner \in {"reading", "stopped", "done"}
  BY DEF Execution

LEMMA NewRunSound ==
    /\ NoRun \in Execution /\ Sound(NoRun)
    /\ NewRun \in Execution /\ Sound(NewRun)
<1>1. <<>> \in Lines /\ 0 \in Nat
  BY DEF Lines
<1>2. NoRun \in Execution /\ NewRun \in Execution
  BY <1>1 DEF NoRun, NewRun, Execution
<1>3. (<<>> \o <<>>) \o (<<>> \o <<>>) = Count(0)
  <2>1. \A s \in Lines : <<>> \o s = s
    BY ConcatEmptySeq DEF Lines
  <2>2. Count(0) = <<>>
    BY DEF Count
  <2> QED BY <1>1, <2>1, <2>2
<1> QED BY <1>2, <1>3 DEF Sound, Stream, NoRun, NewRun

LEMMA PrintsSound ==
    ASSUME NEW r \in Execution, Sound(r), r.child = "on", NEW long \in Nat
    PROVE  LET q == [r EXCEPT !.printed = r.printed + 1, !.pipe = Append(r.pipe, r.printed + 1),
                              !.long = long]
           IN  q \in Execution /\ Sound(q) /\ q.copying = r.copying /\ q.scanner = r.scanner
<1> DEFINE n == r.printed + 1
           q == [r EXCEPT !.printed = n, !.pipe = Append(r.pipe, n), !.long = long]
<1>0. r.printed \in Nat /\ r.pipe \in Lines
  BY RunFacts
<1>1. n \in Nat /\ Append(r.pipe, n) \in Lines
  BY <1>0 DEF Lines
<1>2. /\ q \in Execution /\ q.printed = n /\ q.pipe = Append(r.pipe, n) /\ q.seen = r.seen
      /\ q.token = r.token /\ q.hold = r.hold /\ q.copying = r.copying /\ q.child = r.child
      /\ q.scanner = r.scanner
  BY <1>1 DEF Execution
<1>3. Stream(q) = Append(Stream(r), n)
  <2>1. n \in Nat /\ r.pipe \in Lines /\ r.hold \in Lines /\ r.token \in Lines /\ r.seen \in Lines
    BY <1>1, RunFacts
  <2> DEFINE s == r.seen
             t == r.token
             h == r.hold
             p == r.pipe
  <2> HIDE DEF n, q, s, t, h, p
  <2>2. s \in Lines /\ t \in Lines /\ h \in Lines /\ p \in Lines
    BY <2>1 DEF s, t, h, p
  <2>3. <<n>> \in Lines /\ s \o t \in Lines /\ h \o p \in Lines /\ (s \o t) \o (h \o p) \in Lines
    BY <2>1, <2>2, Joined DEF Lines
  <2>4. Append(p, n) = p \o <<n>>
    BY <2>1, <2>2, Appended
  <2>5. Append((s \o t) \o (h \o p), n) = ((s \o t) \o (h \o p)) \o <<n>>
    BY <2>1, <2>3, Appended
  <2>6. h \o (p \o <<n>>) = (h \o p) \o <<n>>
    BY <2>2, <2>3, JoinedInAnyOrder, SMT
  <2>7. (s \o t) \o ((h \o p) \o <<n>>) = ((s \o t) \o (h \o p)) \o <<n>>
    BY <2>3, JoinedInAnyOrder, SMT
  <2>8. (s \o t) \o (h \o Append(p, n)) = Append((s \o t) \o (h \o p), n)
    BY <2>4, <2>5, <2>6, <2>7, Zenon
  <2> QED BY <1>2, <2>8 DEF Stream, s, t, h, p
<1>4. Append(Stream(r), n) = Count(n)
  BY RunFacts, CountFacts DEF Sound
<1> HIDE DEF q
<1>5. Sound(q)
  BY <1>2, <1>3, <1>4 DEF Sound
<1> QED BY <1>2, <1>5 DEF q

LEMMA CopiesSound ==
    ASSUME NEW r \in Execution, Sound(r), r.hold = <<>>, r.pipe # <<>>
    PROVE  LET q == [r EXCEPT !.hold = <<Head(r.pipe)>>, !.pipe = Tail(r.pipe)]
           IN  q \in Execution /\ Sound(q) /\ q.copying = r.copying /\ q.scanner = r.scanner
<1> DEFINE q == [r EXCEPT !.hold = <<Head(r.pipe)>>, !.pipe = Tail(r.pipe)]
<1>1. /\ Tail(r.pipe) \in Lines /\ <<Head(r.pipe)>> \in Lines
      /\ <<>> \o r.pipe = <<Head(r.pipe)>> \o Tail(r.pipe)
  <2>1. r.pipe \in Lines
    BY RunFacts
  <2> QED BY <2>1, Split, JoinedToNone, Zenon
<1>2. /\ q \in Execution /\ q.printed = r.printed /\ q.pipe = Tail(r.pipe) /\ q.seen = r.seen
      /\ q.token = r.token /\ q.hold = <<Head(r.pipe)>> /\ q.copying = r.copying
      /\ q.child = r.child /\ q.scanner = r.scanner
  BY <1>1 DEF Execution
<1> HIDE DEF q
<1>3. Stream(q) = Stream(r)
  BY <1>1, <1>2 DEF Stream
<1>4. <<Head(r.pipe)>> # <<>>
  OBVIOUS
<1>5. Sound(q)
  BY <1>2, <1>3, <1>4 DEF Sound
<1> QED BY <1>2, <1>5 DEF q

LEMMA ScansSound ==
    ASSUME NEW r \in Execution, Sound(r), r.scanner = "reading", r.token = <<>>, r.hold # <<>>
    PROVE  LET q == [r EXCEPT !.token = r.hold, !.hold = <<>>]
           IN  q \in Execution /\ Sound(q) /\ q.copying = r.copying /\ q.scanner = r.scanner
<1> DEFINE q == [r EXCEPT !.token = r.hold, !.hold = <<>>]
<1>1. <<>> \in Lines
  BY DEF Lines
<1>2. /\ q \in Execution /\ q.printed = r.printed /\ q.pipe = r.pipe /\ q.seen = r.seen
      /\ q.token = r.hold /\ q.hold = <<>> /\ q.copying = r.copying
      /\ q.child = r.child /\ q.scanner = r.scanner
  BY <1>1 DEF Execution
<1> HIDE DEF q
<1>3. (r.seen \o <<>>) \o (r.hold \o r.pipe) = (r.seen \o r.hold) \o (<<>> \o r.pipe)
  <2>1. r.seen \in Lines /\ r.hold \in Lines /\ r.pipe \in Lines
    BY RunFacts
  <2> QED BY <2>1, Handed, Zenon
<1>4. Stream(q) = Stream(r)
  BY <1>2, <1>3 DEF Stream
<1>5. Sound(q)
  BY <1>2, <1>4 DEF Sound
<1> QED BY <1>2, <1>5 DEF q

LEMMA OnLineSound ==
    ASSUME NEW r \in Execution, Sound(r)
    PROVE  LET q == [r EXCEPT !.seen = r.seen \o r.token, !.token = <<>>]
           IN  q \in Execution /\ Sound(q) /\ q.copying = r.copying /\ q.scanner = r.scanner
<1> DEFINE q == [r EXCEPT !.seen = r.seen \o r.token, !.token = <<>>]
<1>1. <<>> \in Lines /\ r.seen \o r.token \in Lines
  BY RunFacts, Joined, JoinedToNone
<1>2. /\ q \in Execution /\ q.printed = r.printed /\ q.pipe = r.pipe /\ q.hold = r.hold
      /\ q.seen = r.seen \o r.token /\ q.token = <<>> /\ q.copying = r.copying
      /\ q.child = r.child /\ q.scanner = r.scanner
  BY <1>1 DEF Execution
<1> HIDE DEF q
<1>3. r.seen \o r.token = (r.seen \o r.token) \o <<>>
  BY RunFacts, Joined, JoinedToNone
<1>4. Stream(q) = Stream(r)
  BY <1>2, <1>3 DEF Stream
<1>5. Sound(q)
  BY <1>2, <1>4 DEF Sound
<1> QED BY <1>2, <1>5 DEF q

\* What is in no line: the child ends, the copy ends, the scanner ends or stops,
\* the pipe is closed.
LEMMA EndsSound ==
    ASSUME NEW r \in Execution, Sound(r)
    PROVE  /\ [r EXCEPT !.child = "off"] \in Execution /\ Sound([r EXCEPT !.child = "off"])
           /\ [r EXCEPT !.closed = TRUE] \in Execution /\ Sound([r EXCEPT !.closed = TRUE])
           /\ r.hold = <<>> /\ r.pipe = <<>> /\ r.child = "off" =>
                  /\ [r EXCEPT !.copying = FALSE] \in Execution
                  /\ Sound([r EXCEPT !.copying = FALSE])
           /\ r.hold # <<>> =>
                  /\ [r EXCEPT !.scanner = "stopped"] \in Execution
                  /\ Sound([r EXCEPT !.scanner = "stopped"])
           /\ r.token = <<>> =>
                  /\ [r EXCEPT !.scanner = "done"] \in Execution
                  /\ Sound([r EXCEPT !.scanner = "done"])
  BY DEF Execution, Sound, Stream

-----------------------------------------------------------------------------

\* One caller's execution goes on, and its place with it.
LEMMA LineKeeps ==
    ASSUME LineInv, NEW c \in Callers,
           \A d \in Callers \ {c} : run'[d] = run[d] /\ loc'[d].at = loc[d].at,
           run'[c] \in Execution, Sound(run'[c]),
           loc'[c].at = "scan" => ~run'[c].copying,
           loc'[c].at = "done" => ~run'[c].copying /\ run'[c].scanner = "done"
    PROVE  LineInv'
  BY DEF LineInv, At

LEMMA LineStep ==
    ASSUME TypeOK, LineInv, run \in [Callers -> Execution], [Next]_vars
    PROVE  LineInv' /\ run' \in [Callers -> Execution]
<1>t. loc \in [Callers -> Local]
  BY DEF TypeOK
<1>r. \A c \in Callers : \A q : Steps(c, q) =>
          /\ run'[c] = q /\ (\A d \in Callers \ {c} : run'[d] = run[d])
          /\ (q \in Execution => run' \in [Callers -> Execution])
  BY DEF Steps
<1>s. ASSUME NEW c \in Callers, NEW l, Set(c, l)
      PROVE  loc'[c] = l /\ \A d \in Callers \ {c} : loc'[d] = loc[d]
  BY <1>s, <1>t DEF Set
<1>u. ASSUME UNCHANGED run, \A c \in Callers : loc'[c].at \in {"scan", "done"} => loc'[c].at = loc[c].at
      PROVE  LineInv' /\ run' \in [Callers -> Execution]
  BY <1>u DEF LineInv, At
<1>w. \A c \in Callers : run[c] \in Execution /\ Sound(run[c])
  BY DEF LineInv
\* A caller goes to a place where its execution does not matter.
<1>e. ASSUME NEW c \in Callers, NEW l, Set(c, l), l.at \notin {"scan", "done"}, UNCHANGED run
      PROVE  LineInv' /\ run' \in [Callers -> Execution]
  <2>1. loc'[c] = l /\ \A d \in Callers \ {c} : loc'[d] = loc[d]
    BY <1>e, <1>s
  <2>2. \A d \in Callers : loc'[d].at \in {"scan", "done"} => loc'[d].at = loc[d].at
    BY <2>1, <1>e
  <2> QED BY <1>e, <1>u, <2>2
\* An execution goes on while its caller stays where it is.
<1>k. ASSUME NEW c \in Callers, NEW q \in Execution, Sound(q), Steps(c, q), UNCHANGED loc,
             At(c, "scan") => ~q.copying,
             At(c, "done") => ~q.copying /\ q.scanner = "done"
      PROVE  LineInv' /\ run' \in [Callers -> Execution]
  <2>1. /\ run'[c] = q /\ (\A d \in Callers \ {c} : run'[d] = run[d])
        /\ run' \in [Callers -> Execution]
    BY <1>k, <1>r
  <2>2. \A d \in Callers \ {c} : run'[d] = run[d] /\ loc'[d].at = loc[d].at
    BY <1>k, <2>1
  <2>3. loc'[c].at = loc[c].at
    BY <1>k
  <2> QED BY <1>k, <2>1, <2>2, <2>3, LineKeeps DEF At
<1>f. \A at : Fresh(at).at = at
  BY DEF Fresh
<1>n. \A c \in Callers : NextMirror(c).at \in {"fetch", "failed"}
  BY <1>f DEF NextMirror, Fresh
<1>1. ASSUME NEW c \in Callers, Install(c) \/ UpdateCheck(c)
      PROVE  LineInv' /\ run' \in [Callers -> Execution]
  BY <1>1, <1>e, <1>f DEF Install, UpdateCheck
<1>2. ASSUME NEW c \in Callers, EnsureNext(c)
      PROVE  LineInv' /\ run' \in [Callers -> Execution]
  <2>0. UNCHANGED run
    BY <1>2 DEF EnsureNext, EnsureStat, FetchFails, Fetch, Fill, FillFails, Rename, Open, Member,
                Copy, CopyFails, Found
  <2>1. \A d \in Callers : loc'[d].at \in {"scan", "done"} => loc'[d].at = loc[d].at
    <3>1. CASE EnsureStat(c)
      BY <3>1, <1>t DEF EnsureStat, Set, Fresh, Local
    <3>2. CASE FetchFails(c) \/ FillFails(c) \/ CopyFails(c)
      BY <3>2, <1>s, <1>n DEF FetchFails, FillFails, CopyFails
    <3>3. CASE Fetch(c)
      BY <3>3, <1>t DEF Fetch, Set, Local
    <3>4. CASE Fill(c)
      BY <3>4, <1>t DEF Fill, Set, Local
    <3>5. CASE Rename(c)
      <4>1. CASE Set(c, NextMirror(c))
        BY <4>1, <1>s, <1>n
      <4>2. CASE Set(c, [loc[c] EXCEPT !.at = "open", !.fd = 0, !.pos = 0])
        BY <4>2, <1>t DEF Set, Local
      <4> QED BY <3>5, <4>1, <4>2 DEF Rename
    <3>6. CASE Open(c)
      <4>1. CASE Set(c, NextMirror(c))
        BY <4>1, <1>s, <1>n
      <4>2. CASE Set(c, [loc[c] EXCEPT !.at = "member", !.fd = archive, !.pos = 1])
        BY <4>2, <1>t DEF Set, Local
      <4> QED BY <3>6, <4>1, <4>2 DEF Open
    <3>7. CASE Member(c)
      BY <3>7, <1>t DEF Member, Local
    <3>8. CASE Copy(c)
      BY <3>8, <1>t DEF Copy, Set, Local
    <3>9. CASE Found(c)
      <4>1. CASE Set(c, NextMirror(c))
        BY <4>1, <1>s, <1>n
      <4>2. CASE Set(c, Fresh("launch"))
        BY <4>2, <1>s, <1>f
      <4> QED BY <3>9, <4>1, <4>2 DEF Found
    <3> QED BY <1>2, <3>1, <3>2, <3>3, <3>4, <3>5, <3>6, <3>7, <3>8, <3>9 DEF EnsureNext
  <2> QED BY <1>u, <2>0, <2>1
<1>3. ASSUME NEW c \in Callers, Launch(c)
      PROVE  LineInv' /\ run' \in [Callers -> Execution]
  <2>1. /\ run'[c] = NewRun /\ (\A d \in Callers \ {c} : run'[d] = run[d])
        /\ run' \in [Callers -> Execution]
    BY <1>3, <1>r, NewRunSound DEF Launch
  <2>2. loc'[c].at = "run" /\ \A d \in Callers \ {c} : loc'[d] = loc[d]
    BY <1>3, <1>t DEF Launch, Move, Set, Local
  <2>3. \A d \in Callers \ {c} : run'[d] = run[d] /\ loc'[d].at = loc[d].at
    BY <2>1, <2>2
  <2> QED BY <2>1, <2>2, <2>3, NewRunSound, LineKeeps
<1>4. ASSUME NEW c \in Callers, Prints(c)
      PROVE  LineInv' /\ run' \in [Callers -> Execution]
  <2> DEFINE n == run[c].printed + 1
  <2>1. PICK long \in Nat :
            Steps(c, [run[c] EXCEPT !.printed = n, !.pipe = Append(run[c].pipe, n), !.long = long])
    <3>1. run[c].long \in Nat /\ run[c].printed \in Nat
      BY <1>w, RunFacts
    <3>2. \E long \in {run[c].long} \cup (IF run[c].long = 0 THEN {n} ELSE {}) :
              Steps(c, [run[c] EXCEPT !.printed = n, !.pipe = Append(run[c].pipe, n), !.long = long])
      BY <1>4 DEF Prints
    <3>3. {run[c].long} \cup (IF run[c].long = 0 THEN {n} ELSE {}) \subseteq Nat
      BY <3>1
    <3> QED BY <3>2, <3>3
  <2> DEFINE q == [run[c] EXCEPT !.printed = n, !.pipe = Append(run[c].pipe, n), !.long = long]
  <2>2. run[c].child = "on" /\ UNCHANGED loc /\ Running(c)
    BY <1>4 DEF Prints
  <2>3. q \in Execution /\ Sound(q) /\ q.copying = run[c].copying /\ q.scanner = run[c].scanner
    BY <1>w, <2>2, PrintsSound
  <2>4. run[c].copying
    BY <1>w, <2>2 DEF Sound
  <2>5. ~At(c, "scan") /\ ~At(c, "done")
    BY <2>4 DEF LineInv
  <2> HIDE DEF q
  <2>6. Steps(c, q)
    BY <2>1 DEF q
  <2> QED BY <1>k, <2>2, <2>3, <2>5, <2>6
<1>5. ASSUME NEW c \in Callers, ChildEnds(c)
      PROVE  LineInv' /\ run' \in [Callers -> Execution]
  <2> DEFINE q == [run[c] EXCEPT !.child = "off"]
  <2>1. q \in Execution /\ Sound(q)
    BY <1>w, EndsSound
  <2>2. q.copying = run[c].copying /\ q.scanner = run[c].scanner
    BY <1>w DEF Execution
  <2>3. Steps(c, q) /\ UNCHANGED loc
    BY <1>5 DEF ChildEnds
  <2> HIDE DEF q
  <2> QED BY <1>k, <2>1, <2>2, <2>3 DEF LineInv
<1>6. ASSUME NEW c \in Callers, Copies(c)
      PROVE  LineInv' /\ run' \in [Callers -> Execution]
  <2>1. run[c].copying /\ run[c].hold = <<>> /\ UNCHANGED loc
    BY <1>6 DEF Copies
  <2>2. ~At(c, "scan") /\ ~At(c, "done")
    BY <2>1 DEF LineInv
  <2>3. CASE run[c].pipe # <<>>
    <3> DEFINE q == [run[c] EXCEPT !.hold = <<Head(run[c].pipe)>>, !.pipe = Tail(run[c].pipe)]
    <3>1. q \in Execution /\ Sound(q)
      BY <1>w, <2>1, <2>3, CopiesSound
    <3>2. Steps(c, q)
      BY <1>6, <2>3 DEF Copies
    <3> HIDE DEF q
    <3> QED BY <1>k, <2>1, <2>2, <3>1, <3>2
  <2>4. CASE run[c].pipe = <<>>
    <3> DEFINE q == [run[c] EXCEPT !.copying = FALSE]
    <3>1. Steps(c, q) /\ run[c].child = "off"
      BY <1>6, <2>4 DEF Copies
    <3>2. q \in Execution /\ Sound(q)
      BY <1>w, <2>1, <2>4, <3>1, EndsSound
    <3> HIDE DEF q
    <3> QED BY <1>k, <2>1, <2>2, <3>1, <3>2
  <2> QED BY <2>3, <2>4
<1>7. ASSUME NEW c \in Callers, Scans(c)
      PROVE  LineInv' /\ run' \in [Callers -> Execution]
  <2>1. /\ run[c].scanner = "reading" /\ run[c].token = <<>> /\ run[c].hold # <<>>
        /\ UNCHANGED loc
    BY <1>7 DEF Scans
  <2>2. run[c].copying
    BY <1>w, <2>1, RunFacts DEF Sound
  <2>3. ~At(c, "scan") /\ ~At(c, "done")
    BY <2>2 DEF LineInv
  <2>4. CASE Head(run[c].hold) = run[c].long
    <3> DEFINE q == [run[c] EXCEPT !.scanner = "stopped"]
    <3>1. Steps(c, q)
      BY <1>7, <2>4 DEF Scans
    <3>2. q \in Execution /\ Sound(q)
      BY <1>w, <2>1, EndsSound
    <3> HIDE DEF q
    <3> QED BY <1>k, <2>1, <2>3, <3>1, <3>2
  <2>5. CASE Head(run[c].hold) # run[c].long
    <3> DEFINE q == [run[c] EXCEPT !.token = run[c].hold, !.hold = <<>>]
    <3>1. Steps(c, q)
      BY <1>7, <2>5 DEF Scans
    <3>2. q \in Execution /\ Sound(q)
      BY <1>w, <2>1, ScansSound
    <3> HIDE DEF q
    <3> QED BY <1>k, <2>1, <2>3, <3>1, <3>2
  <2> QED BY <2>4, <2>5
<1>8. ASSUME NEW c \in Callers, OnLine(c)
      PROVE  LineInv' /\ run' \in [Callers -> Execution]
  <2> DEFINE q == [run[c] EXCEPT !.seen = run[c].seen \o run[c].token, !.token = <<>>]
  <2>1. q \in Execution /\ Sound(q) /\ q.copying = run[c].copying /\ q.scanner = run[c].scanner
    BY <1>w, OnLineSound
  <2>2. Steps(c, q) /\ UNCHANGED loc
    BY <1>8 DEF OnLine
  <2> HIDE DEF q
  <2> QED BY <1>k, <2>1, <2>2 DEF LineInv
<1>9. ASSUME NEW c \in Callers, ScanEnds(c)
      PROVE  LineInv' /\ run' \in [Callers -> Execution]
  <2> DEFINE q == [run[c] EXCEPT !.scanner = "done"]
  <2>1. Steps(c, q) /\ UNCHANGED loc /\ run[c].token = <<>>
    BY <1>9 DEF ScanEnds
  <2>2. q \in Execution /\ Sound(q)
    BY <1>w, <2>1, EndsSound
  <2>3. q.copying = run[c].copying /\ q.scanner = "done"
    BY <1>w DEF Execution
  <2> HIDE DEF q
  <2> QED BY <1>k, <2>1, <2>2, <2>3 DEF LineInv
<1>10. ASSUME NEW c \in Callers, Waits(c)
       PROVE  LineInv' /\ run' \in [Callers -> Execution]
  <2> DEFINE q == [run[c] EXCEPT !.closed = TRUE]
  <2>1. Steps(c, q) /\ ~run[c].copying
    BY <1>10 DEF Waits
  <2>2. q \in Execution /\ Sound(q)
    BY <1>w, EndsSound
  <2>3. q.copying = run[c].copying
    BY <1>w DEF Execution
  <2> HIDE DEF q
  <2>4. /\ run'[c] = q /\ (\A d \in Callers \ {c} : run'[d] = run[d])
        /\ run' \in [Callers -> Execution]
    BY <2>1, <2>2, <1>r
  <2>5. loc'[c].at = "scan" /\ \A d \in Callers \ {c} : loc'[d] = loc[d]
    BY <1>10, <1>t DEF Waits, Move, Set, Local
  <2>6. \A d \in Callers \ {c} : run'[d] = run[d] /\ loc'[d].at = loc[d].at
    BY <2>4, <2>5
  <2> QED BY <2>1, <2>2, <2>3, <2>4, <2>5, <2>6, LineKeeps
\* A scanner that stopped has its line at hand still, and then the copy has not ended.
<1>11. ASSUME NEW c \in Callers, RunReturns(c)
       PROVE  LineInv' /\ run' \in [Callers -> Execution]
  <2>1. UNCHANGED run /\ At(c, "scan") /\ run[c].scanner # "reading"
    BY <1>11 DEF RunReturns
  <2>2. ~run[c].copying
    BY <2>1 DEF LineInv
  <2>3. run[c].scanner = "done"
    BY <1>w, <2>1, <2>2, RunFacts DEF Sound
  <2>4. loc'[c].at = "done" /\ \A d \in Callers \ {c} : loc'[d] = loc[d]
    BY <1>11, <1>t DEF RunReturns, Move, Set, Local
  <2>5. \A d \in Callers \ {c} : run'[d] = run[d] /\ loc'[d].at = loc[d].at
    BY <2>1, <2>4
  <2>6. run'[c] = run[c] /\ run' = run
    BY <2>1
  <2> QED BY <1>w, <2>2, <2>3, <2>4, <2>5, <2>6, LineKeeps
<1>12. ASSUME Crash
       PROVE  LineInv' /\ run' \in [Callers -> Execution]
  <2>1. \A c \in Callers : run'[c] = NoRun /\ loc'[c].at = "idle"
    BY <1>12, <1>f DEF Crash
  <2>2. run' \in [Callers -> Execution]
    BY <1>12, NewRunSound DEF Crash
  <2> QED BY <2>1, <2>2, NewRunSound DEF LineInv, At
<1>13. ASSUME UNCHANGED vars
       PROVE  LineInv' /\ run' \in [Callers -> Execution]
  BY <1>13, <1>u DEF vars
<1> QED
  BY <1>1, <1>2, <1>3, <1>4, <1>5, <1>6, <1>7, <1>8, <1>9, <1>10, <1>11, <1>12, <1>13
  DEF Next, RunNext

-----------------------------------------------------------------------------
(* The theorems *)

LEMMA DiskInitially == Init => DiskInv
<1> SUFFICES ASSUME Init PROVE DiskInv
  OBVIOUS
<1>1. Fresh("idle") \in Local /\ Fresh("idle").at = "idle"
  BY Constants DEF Fresh, Local
<1>2. \A c \in Callers : loc[c].at = "idle"
  BY <1>1 DEF Init
<1>3. TypeOK
  BY <1>1 DEF Init, TypeOK
<1>4. PlaceInv /\ MemberInv
  BY <1>2 DEF Init, PlaceInv, MemberInv, At, Unpacking
<1> QED BY <1>3, <1>4 DEF DiskInv

LEMMA LineInitially == Init => LineInv /\ run \in [Callers -> Execution]
  BY NewRunSound DEF Init, LineInv, At, Fresh

LEMMA DiskKeeps == DiskInv /\ [Next]_vars => DiskInv'
<1> SUFFICES ASSUME DiskInv, [Next]_vars PROVE DiskInv'
  OBVIOUS
<1>1. TypeOK'
  BY TypeStep DEF DiskInv
<1> QED BY <1>1, DiskStep DEF DiskInv

LEMMA DiskSafe == Spec => []DiskInv
<1> QED BY DiskKeeps, DiskInitially, PTL DEF Spec

\* The types of the variables; the inodes the model has are enough for every file
\* a caller makes.
THEOREM TypeCorrect == Spec => []TypeOK
<1>1. DiskInv => TypeOK
  BY DEF DiskInv
<1> QED BY <1>1, DiskSafe, PTL

\* When Run returns, its caller has been told every line that SteamCMD printed, each
\* once and in its order, whatever the copy, the scanner and the child did before
\* each other (steamcmd.go, Run).
THEOREM LinesAllSeen == Spec => []AllLinesSeen
<1> DEFINE I == DiskInv /\ LineInv /\ run \in [Callers -> Execution]
<1>1. Init => I
  BY DiskInitially, LineInitially
<1>2. I /\ [Next]_vars => I'
  <2> SUFFICES ASSUME I, [Next]_vars PROVE I'
    OBVIOUS
  <2>1. DiskInv'
    BY DiskKeeps
  <2>2. LineInv' /\ run' \in [Callers -> Execution]
    BY LineStep DEF DiskInv
  <2> QED BY <2>1, <2>2
<1>3. I => AllLinesSeen
  <2> SUFFICES ASSUME I, NEW c \in Callers, At(c, "done")
               PROVE  run[c].seen = [n \in 1 .. run[c].printed |-> n]
    BY DEF AllLinesSeen
  <2> DEFINE r == run[c]
  <2>1. r \in Execution /\ Sound(r) /\ ~r.copying /\ r.scanner = "done"
    BY DEF LineInv
  <2> HIDE DEF r
  <2>2. r.hold = <<>> /\ r.pipe = <<>> /\ r.token = <<>>
    BY <2>1 DEF Sound
  <2>3. (r.seen \o <<>>) \o (<<>> \o <<>>) = r.seen
    <3>1. r.seen \in Lines /\ <<>> \in Lines
      BY <2>1, RunFacts, Joined
    <3>2. r.seen \o <<>> = r.seen /\ <<>> \o <<>> = <<>>
      BY <3>1, JoinedToNone
    <3> QED BY <3>2
  <2>4. r.seen = Count(r.printed)
    BY <2>1, <2>2, <2>3 DEF Sound, Stream
  <2> QED BY <2>4 DEF r, Count
<1> HIDE DEF I
<1> QED BY <1>1, <1>2, <1>3, PTL DEF Spec

\* Ensure says that SteamCMD is there only when every one of its files is whole,
\* though callers unpack over each other, downloads break off and the panel dies;
\* unless an unpacking was cut short, or goes on elsewhere (steamcmd.go, Ensure).
THEOREM EnsuredWhole == Spec => EnsuredIsWhole
<1> DEFINE A == \A c \in Callers :
                    (EnsureStat(c) \/ Found(c)) /\ loc'[c].at = "launch" =>
                        \/ Whole
                        \/ cut
                        \/ \E d \in Callers \ {c} : Unpacking(d)
<1>1. DiskInv => A
  <2> SUFFICES ASSUME DiskInv, NEW c \in Callers, EnsureStat(c) \/ Found(c),
                      loc'[c].at = "launch", ~cut, \A d \in Callers \ {c} : ~Unpacking(d)
               PROVE  Whole
    OBVIOUS
  <2>1. ~Unpacking(c)
    BY DEF EnsureStat, Found, At, Unpacking
  <2>2. \A d \in Callers : ~Unpacking(d)
    BY <2>1
  <2>3. loc \in [Callers -> Local] /\ file \in [Blocks -> {"none", "part", "whole"}]
    BY DEF DiskInv, TypeOK
  <2>4. file[Entry] # "none"
    <3>1. SUFFICES ASSUME file[Entry] = "none" PROVE FALSE
      OBVIOUS
    <3>2. loc'[c].at \in {"fetch", "failed"}
      BY <2>3, <3>1 DEF EnsureStat, Found, Set, Fresh, NextMirror
    <3> QED BY <3>2
  <2>5. \A m \in Blocks : file[m] # "part"
    BY <2>2 DEF DiskInv, MemberInv, Unpacking, At
  <2>6. \A m \in Blocks : file[m] # "none"
    BY <2>2, <2>4, Constants DEF DiskInv, MemberInv
  <2> QED BY <2>3, <2>5, <2>6 DEF Whole
<1> HIDE DEF A
<1>2. Spec => [][A]_vars
  BY <1>1, DiskSafe, PTL
<1> QED BY <1>2 DEF EnsuredIsWhole, A
=============================================================================
