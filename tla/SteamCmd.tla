------------------------------- MODULE SteamCmd -------------------------------
(***************************************************************************)
(* SteamCMD, src/internal/steamcmd/steamcmd.go, as the installer and the    *)
(* downloader of main.go use it: Ensure fetches and unpacks it where it is  *)
(* missing, Run executes it and hands its output on line by line.           *)
(*                                                                         *)
(* All jobs share one directory and nothing guards it: two installs of two  *)
(* instances download to the same temporary file and unpack over the same   *)
(* files.  A file keeps its contents under another name (rename), without   *)
(* one (remove), and while another goroutine still writes to it.            *)
(***************************************************************************)
EXTENDS Naturals, Sequences, FiniteSets

CONSTANTS
    Callers,     \* the goroutines: install and update jobs, update checks
    Mirrors,     \* the number of MirrorURLs
    Members,     \* the archive has the members 1 .. Members, in this order
    Entry,       \* the member that is ExeName
    MaxRequests, \* bound: calls of Install and UpdateCheck
    MaxCrashes,  \* bound: deaths of the panel
    MaxLines,    \* bound: lines of output of one execution
    PipeCap      \* lines the pipe of the operating system holds

ASSUME SteamCmdAssumption ==
    /\ IsFiniteSet(Callers)
    /\ Mirrors \in Nat \ {0} /\ Members \in Nat \ {0} /\ Entry \in 1 .. Members
    /\ MaxRequests \in Nat /\ MaxCrashes \in Nat /\ MaxLines \in Nat
    /\ PipeCap \in Nat \ {0}

Blocks == 1 .. Members                   \* of an archive: one for each member
Inodes == 1 .. Cardinality(Callers) + 2  \* enough for every descriptor and name

VARIABLES
    windows, \* the archives are zip files, and an open file keeps its name; or tar.gz
    inode,   \* the blocks that are written, of every archive on the disk
    tmp,     \* the inode that is called steamcmd_download.bin.tmp, or 0
    archive, \* the inode that is called steamcmd_download.bin, or 0
    file,    \* the unpacked members: none, part or whole
    cut,     \* history: an unpacking ended early
    loc,     \* where every caller is
    run,     \* the execution of every caller
    requests,
    crashes

diskVars == <<inode, tmp, archive, file, cut>>
vars == <<windows, diskVars, loc, run, requests, crashes>>

\* What a caller in Ensure has at hand: the mirror, the file it has open, the
\* block or member it is at, and whether nobody else truncated that member.
Local == [at : {"idle", "stat", "fetch", "fill", "rename", "open", "member", "copy",
                "found", "launch", "run", "scan", "done", "failed"},
          mirror : 0 .. Mirrors, fd : {0} \cup Inodes, pos : 0 .. Members + 1, own : BOOLEAN]
Fresh(at) == [at |-> at, mirror |-> 0, fd |-> 0, pos |-> 0, own |-> FALSE]

\* An execution: the line (if any) that is longer than the scanner's buffer,
\* lines printed, in the pipe, in the hands of the copying goroutine and of the
\* scanner, and the lines onLine was called for.
NoRun == [long |-> 0, child |-> "off", printed |-> 0, pipe |-> <<>>, hold |-> <<>>,
          copying |-> FALSE, closed |-> FALSE, scanner |-> "done", token |-> <<>>, seen |-> <<>>]
NewRun == [NoRun EXCEPT !.child = "on", !.copying = TRUE, !.scanner = "reading"]

Init ==
    /\ windows \in BOOLEAN
    /\ inode = [n \in Inodes |-> {}]
    /\ tmp = 0 /\ archive = 0
    /\ file = [m \in Blocks |-> "none"]
    /\ cut = FALSE
    /\ loc = [c \in Callers |-> Fresh("idle")]
    /\ run = [c \in Callers |-> NoRun]
    /\ requests = 0 /\ crashes = 0

-----------------------------------------------------------------------------
(* Helpers *)

At(c, at) == loc[c].at = at
Set(c, l) == loc' = [loc EXCEPT ![c] = l]
Move(c, at) == Set(c, [loc[c] EXCEPT !.at = at])

Whole == \A m \in Blocks : file[m] = "whole"
Unpacking(c) == loc[c].at \in {"member", "copy"}

\* continue: the next mirror, or the last error is returned.
NextMirror(c) == IF loc[c].mirror < Mirrors
                 THEN [Fresh("fetch") EXCEPT !.mirror = loc[c].mirror + 1]
                 ELSE Fresh("failed")

\* The inodes a name or a descriptor holds.
Held == {tmp, archive} \cup {loc[c].fd : c \in Callers}
NewInode == CHOOSE n \in Inodes \ Held : \A m \in Inodes \ Held : n <= m

\* Windows neither renames, replaces nor removes what another caller has open.
Blocked(c, n) == windows /\ \E d \in Callers \ {c} : loc[d].fd = n /\ n # 0

\* gzip.NewReader needs the beginning of the file, zip.OpenReader its end; the
\* members are read from where they are.
Opens(n) == IF windows THEN Members \in inode[n] ELSE 1 \in inode[n]

-----------------------------------------------------------------------------
(* Ensure *)

\* Install, by an install or an update job.
Install(c) ==
    /\ At(c, "idle") \/ At(c, "done") \/ At(c, "failed")
    /\ requests < MaxRequests
    /\ requests' = requests + 1
    /\ Set(c, Fresh("stat"))
    /\ UNCHANGED <<windows, diskVars, run, crashes>>

\* UpdateCheck reads the installed build id, and gives up when it cannot; then it runs
\* SteamCMD without Ensure, whatever there is of it.
UpdateCheck(c) ==
    /\ At(c, "idle") \/ At(c, "done") \/ At(c, "failed")
    /\ requests < MaxRequests
    /\ requests' = requests + 1
    /\ \E at \in {"launch", "failed"} : Set(c, Fresh(at))
    /\ UNCHANGED <<windows, diskVars, run, crashes>>

EnsureStat(c) ==
    /\ At(c, "stat")
    /\ Set(c, IF file[Entry] # "none" THEN Fresh("launch")
              ELSE [Fresh("fetch") EXCEPT !.mirror = 1])
    /\ UNCHANGED <<windows, diskVars, run, requests, crashes>>

\* httpDownload: the mirror does not answer, or not with 200, ...
FetchFails(c) ==
    /\ At(c, "fetch")
    /\ Set(c, NextMirror(c))
    /\ UNCHANGED <<windows, diskVars, run, requests, crashes>>

\* ... or os.Create makes the temporary file, or empties the one there is.
Fetch(c) ==
    /\ At(c, "fetch")
    /\ LET n == IF tmp # 0 THEN tmp ELSE NewInode
       IN /\ tmp' = n
          /\ inode' = [inode EXCEPT ![n] = {}]
          /\ Set(c, [loc[c] EXCEPT !.at = "fill", !.fd = n, !.pos = 1])
    /\ UNCHANGED <<windows, archive, file, cut, run, requests, crashes>>

\* io.Copy, and f.Close.
Fill(c) ==
    /\ At(c, "fill")
    /\ inode' = [inode EXCEPT ![loc[c].fd] = @ \cup {loc[c].pos}]
    /\ Set(c, [loc[c] EXCEPT !.pos = @ + 1,
                             !.at = IF loc[c].pos = Members THEN "rename" ELSE "fill"])
    /\ UNCHANGED <<windows, tmp, archive, file, cut, run, requests, crashes>>

\* The download breaks off: the temporary file is removed, whoever made it.
FillFails(c) ==
    /\ At(c, "fill")
    /\ tmp' = IF Blocked(c, tmp) THEN tmp ELSE 0
    /\ Set(c, NextMirror(c))
    /\ UNCHANGED <<windows, inode, archive, file, cut, run, requests, crashes>>

\* os.Rename fails when another caller renamed or removed the temporary file.
Rename(c) ==
    /\ At(c, "rename")
    /\ IF tmp # 0 /\ ~Blocked(c, tmp) /\ ~Blocked(c, archive)
       THEN /\ archive' = tmp /\ tmp' = 0
            /\ Set(c, [loc[c] EXCEPT !.at = "open", !.fd = 0, !.pos = 0])
       ELSE Set(c, NextMirror(c)) /\ UNCHANGED <<archive, tmp>>
    /\ UNCHANGED <<windows, inode, file, cut, run, requests, crashes>>

\* extract: the archive is gone or not readable, or its first member is next.
Open(c) ==
    /\ At(c, "open")
    /\ Set(c, IF archive # 0 /\ Opens(archive)
              THEN [loc[c] EXCEPT !.at = "member", !.fd = archive, !.pos = 1]
              ELSE NextMirror(c))
    /\ UNCHANGED <<windows, diskVars, run, requests, crashes>>

\* os.OpenFile empties the member; whoever writes to it as well has it no longer
\* for itself.
Member(c) ==
    /\ At(c, "member")
    /\ file' = [file EXCEPT ![loc[c].pos] = "part"]
    /\ loc' = [d \in Callers |->
                  IF d = c THEN [loc[d] EXCEPT !.at = "copy", !.own = TRUE]
                  ELSE IF At(d, "copy") /\ loc[d].pos = loc[c].pos
                  THEN [loc[d] EXCEPT !.own = FALSE]
                  ELSE loc[d]]
    /\ UNCHANGED <<windows, inode, tmp, archive, cut, run, requests, crashes>>

\* An error of the copy is not looked at: a mistaken form.
CopyUnchecked(c) ==
    /\ At(c, "copy")
    /\ file' = [file EXCEPT ![loc[c].pos] = @]
    /\ Set(c, IF loc[c].pos = Members THEN [loc[c] EXCEPT !.at = "found", !.fd = 0]
              ELSE [loc[c] EXCEPT !.at = "member", !.pos = @ + 1])
    /\ UNCHANGED <<windows, inode, tmp, archive, cut, run, requests, crashes>>

\* The member is copied.  Where two callers write to one file, what the other
\* one truncated is missing until that one has written it.
Copy(c) ==
    /\ At(c, "copy")
    /\ loc[c].pos \in inode[loc[c].fd]
    /\ \E to \in IF loc[c].own THEN {"whole"} ELSE {"whole", file[loc[c].pos]} :
           file' = [file EXCEPT ![loc[c].pos] = to]
    /\ Set(c, IF loc[c].pos = Members THEN [loc[c] EXCEPT !.at = "found", !.fd = 0]
              ELSE [loc[c] EXCEPT !.at = "member", !.pos = @ + 1])
    /\ UNCHANGED <<windows, inode, tmp, archive, cut, run, requests, crashes>>

\* The archive ends here, or the disk is full: extract returns the error and
\* what it wrote stays.
CopyFails(c) ==
    /\ At(c, "copy")
    /\ cut' = TRUE
    /\ Set(c, NextMirror(c))
    /\ UNCHANGED <<windows, inode, tmp, archive, file, run, requests, crashes>>

\* os.Remove(archive), then the entry is looked for once more.
Found(c) ==
    /\ At(c, "found")
    /\ archive' = IF Blocked(c, archive) THEN archive ELSE 0
    /\ Set(c, IF file[Entry] # "none" THEN Fresh("launch") ELSE NextMirror(c))
    /\ UNCHANGED <<windows, inode, tmp, file, cut, run, requests, crashes>>

-----------------------------------------------------------------------------
(* Run: the child writes into a pipe of the operating system; a goroutine of *)
(* os/exec copies it into an io.Pipe, which keeps nothing; the scanner reads *)
(* from that and calls onLine.                                              *)

Steps(c, r) == run' = [run EXCEPT ![c] = r]
Running(c) == At(c, "run") \/ At(c, "scan")

Launch(c) ==
    /\ At(c, "launch")
    /\ Steps(c, NewRun)
    /\ Move(c, "run")
    /\ UNCHANGED <<windows, diskVars, requests, crashes>>

\* A line of SteamCMD, which waits while the pipe is full; one may be too long.
Prints(c) ==
    /\ Running(c) /\ run[c].child = "on"
    /\ run[c].printed < MaxLines
    /\ Len(run[c].pipe) < PipeCap
    /\ LET n == run[c].printed + 1
       IN \E long \in {run[c].long} \cup (IF run[c].long = 0 THEN {n} ELSE {}) :
              Steps(c, [run[c] EXCEPT !.printed = n, !.pipe = Append(@, n), !.long = long])
    /\ UNCHANGED <<windows, diskVars, loc, requests, crashes>>

\* It ended, or the context of an update check killed it: with the last process
\* that holds it, the pipe is closed.
ChildEnds(c) ==
    /\ Running(c) /\ run[c].child = "on"
    /\ Steps(c, [run[c] EXCEPT !.child = "off"])
    /\ UNCHANGED <<windows, diskVars, loc, requests, crashes>>

\* The copying goroutine: a read, ...
Copies(c) ==
    /\ run[c].copying
    /\ run[c].hold = <<>>
    /\ IF run[c].pipe # <<>>
       THEN Steps(c, [run[c] EXCEPT !.hold = <<Head(run[c].pipe)>>, !.pipe = Tail(@)])
       ELSE /\ run[c].child = "off"
            /\ Steps(c, [run[c] EXCEPT !.copying = FALSE])
    /\ UNCHANGED <<windows, diskVars, loc, requests, crashes>>

\* ... and a write, which ends when the scanner has read it all.  Of a line too
\* long for it the scanner reads what fits, and stops.
Scans(c) ==
    /\ run[c].scanner = "reading" /\ run[c].token = <<>>
    /\ run[c].hold # <<>>
    /\ IF Head(run[c].hold) = run[c].long
       THEN Steps(c, [run[c] EXCEPT !.scanner = "stopped"])
       ELSE Steps(c, [run[c] EXCEPT !.token = run[c].hold, !.hold = <<>>])
    /\ UNCHANGED <<windows, diskVars, loc, requests, crashes>>

OnLine(c) ==
    /\ run[c].token # <<>>
    /\ Steps(c, [run[c] EXCEPT !.seen = @ \o run[c].token, !.token = <<>>])
    /\ UNCHANGED <<windows, diskVars, loc, requests, crashes>>

\* The io.Pipe is closed and empty: sc.Scan is false, scanErr is sent.
ScanEnds(c) ==
    /\ run[c].scanner = "reading" /\ run[c].token = <<>> /\ run[c].hold = <<>>
    /\ run[c].closed
    /\ Steps(c, [run[c] EXCEPT !.scanner = "done"])
    /\ UNCHANGED <<windows, diskVars, loc, requests, crashes>>

\* cmd.Run returns when the child has ended and its output is copied; then
\* pw.Close.  Mistaken forms do not close, and do not wait for the scanner.
WaitsNoClose(c) ==
    /\ At(c, "run")
    /\ run[c].child = "off" /\ ~run[c].copying
    /\ Move(c, "scan")
    /\ UNCHANGED <<windows, diskVars, run, requests, crashes>>
WaitsOnce(c) ==
    /\ At(c, "run")
    /\ run[c].child = "off" /\ ~run[c].copying
    /\ Steps(c, [run[c] EXCEPT !.closed = TRUE])
    /\ Move(c, "done")
    /\ UNCHANGED <<windows, diskVars, requests, crashes>>
Waits(c) ==
    /\ At(c, "run")
    /\ run[c].child = "off" /\ ~run[c].copying
    /\ Steps(c, [run[c] EXCEPT !.closed = TRUE])
    /\ Move(c, "scan")
    /\ UNCHANGED <<windows, diskVars, requests, crashes>>

\* <-scanErr
RunReturns(c) ==
    /\ At(c, "scan")
    /\ run[c].scanner # "reading"
    /\ Move(c, "done")
    /\ UNCHANGED <<windows, diskVars, run, requests, crashes>>

-----------------------------------------------------------------------------
\* The panel dies, and SteamCMD with it; what is on the disk stays.
Crash ==
    /\ crashes < MaxCrashes
    /\ crashes' = crashes + 1
    /\ cut' = (cut \/ \E c \in Callers : Unpacking(c))
    /\ loc' = [c \in Callers |-> Fresh("idle")]
    /\ run' = [c \in Callers |-> NoRun]
    /\ UNCHANGED <<windows, inode, tmp, archive, file, requests>>

EnsureNext(c) ==
    \/ EnsureStat(c) \/ FetchFails(c) \/ Fetch(c) \/ Fill(c) \/ FillFails(c) \/ Rename(c)
    \/ Open(c) \/ Member(c) \/ Copy(c) \/ CopyFails(c) \/ Found(c)

RunNext(c) == Copies(c) \/ Scans(c) \/ OnLine(c) \/ ScanEnds(c) \/ Waits(c) \/ RunReturns(c)

Next == \/ \E c \in Callers : \/ Install(c) \/ UpdateCheck(c) \/ EnsureNext(c)
                              \/ Launch(c) \/ Prints(c) \/ ChildEnds(c) \/ RunNext(c)
        \/ Crash

Spec == Init /\ [][Next]_vars

\* Goroutines are scheduled.  SteamCMD need not end, a mirror need not answer.
FairSpec == Spec /\ \A c \in Callers : WF_vars(RunNext(c))

-----------------------------------------------------------------------------
(* Properties *)

\* The types of the variables.
TypeOK ==
    /\ windows \in BOOLEAN
    /\ inode \in [Inodes -> SUBSET Blocks]
    /\ tmp \in {0} \cup Inodes /\ archive \in {0} \cup Inodes
    /\ file \in [Blocks -> {"none", "part", "whole"}]
    /\ cut \in BOOLEAN
    /\ loc \in [Callers -> Local]

\* Ensure returns without an error only when every file of SteamCMD is whole,
\* though mirrors fail, downloads break off, and two installs share the files;
\* unless an unpacking was cut short, or another caller is at it just then.  (An update
\* check launches what there is without Ensure.)
EnsuredIsWhole ==
    [][\A c \in Callers :
           (EnsureStat(c) \/ Found(c)) /\ loc'[c].at = "launch" =>
               \/ Whole
               \/ cut
               \/ \E d \in Callers \ {c} : Unpacking(d)]_vars

\* When Run returns, onLine was called for every line of output, in its order
\* (steamcmd.go: it returns only after the scanning goroutine ended); after a
\* line that is too long Run does not return.
AllLinesSeen ==
    \A c \in Callers :
        At(c, "done") => run[c].seen = [n \in 1 .. run[c].printed |-> n]

\* Once SteamCMD has ended, Run returns: the copy, the scanner and Run do not
\* wait for each other, unless a line was too long.
RunEnds ==
    \A c \in Callers :
        (Running(c) /\ run[c].child = "off" /\ run[c].long = 0)
            ~> ~Running(c)

\* "So that a half package is not taken for a usable one" (httpDownload): what
\* is unpacked is a whole archive.  Two downloads at a time break it.
UnpacksWhole ==
    \A c \in Callers : At(c, "open") /\ archive # 0 => inode[archive] = Blocks
=============================================================================
