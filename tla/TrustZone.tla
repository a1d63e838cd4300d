------------------------------ MODULE TrustZone ------------------------------
(***************************************************************************)
(* The trust-zone manager: labels of subjects in memory and in a file.     *)
(* Requests change the daemon's memory and then persist it, xhelixctl does *)
(* the same with a memory of its own, operators edit the file by hand, and *)
(* a watcher reads the file back every 30 seconds.  Persisting opens, and  *)
(* so truncates, one temporary file, writes it and renames it; who has it  *)
(* open when it is renamed goes on writing to the file itself.             *)
(***************************************************************************)
EXTENDS Naturals, FiniteSets, Sequences, SequencesExt

CONSTANTS
    Subjects,   \* who a label is assigned to: here programs
    Labels,     \* the labels operators use
    Requests,   \* web requests served side by side
    Tools,      \* runs of xhelixctl zone
    HandEdits,  \* what an editor may leave in place of the file, before the start too
    Absent,     \* no file
    Torn,       \* a file that is no YAML
    SafeDests,  \* destinations whose class a restricted subject may reach
    Internal,   \* private and loopback destinations
    TorPorts,   \* the loopback Tor listeners
    MaxZoneOps  \* bound: requests, runs of the tool and edits together

Assignment == [subject : Subjects, label : Labels]
Memory == [dflt : Labels, assign : Seq(Assignment)]
Written == [dflt : Labels \cup {""}, assign : Seq(Assignment)]   \* a file that parses

ASSUME ZoneAssumption ==
    /\ IsFiniteSet(Subjects) /\ TorPorts \subseteq Internal /\ MaxZoneOps \in Nat
    /\ "trusted" \in Labels /\ Labels \subseteq {"trusted", "restricted", "untrusted", "tor_only"}
    /\ HandEdits \subseteq Written \cup {Absent, Torn}
    /\ Absent \notin Written /\ Torn \notin Written

VARIABLES
    zones,      \* Manager.defaultLbl and assignments of the daemon: [dflt, assign]
    zoneFile,   \* trustzones.yaml: Absent, Torn or [dflt, assign]; dflt may be ""
    zoneTmp,    \* trustzones.yaml.tmp
    zoneOp,     \* per caller: where its call is
    zoneOps,    \* calls and edits so far
    spoiled     \* history: persists overlapped, or an editor left no complete file

zoneVars == <<zones, zoneFile, zoneTmp, zoneOp, zoneOps, spoiled>>

Callers == Requests \cup Tools \cup {"watcher"}
ZoneIdle == [pc |-> "idle"]
Fresh == [dflt |-> "trusted", assign |-> <<>>]
Blank == [dflt |-> "", assign |-> <<>>]   \* an empty file is read as this


\* What Reload makes of memory when it has read f: a missing file and one that
\* names no default leave the default alone, one that does not parse leaves
\* everything.
Loaded(mem, f) ==
    CASE f = Absent -> [mem EXCEPT !.assign = <<>>]
      [] f = Torn -> mem
      [] f \notin {Absent, Torn} ->
           [dflt |-> IF f.dflt = "" THEN mem.dflt ELSE f.dflt, assign |-> f.assign]

\* An absent or a complete file.
Whole(f) == f = Absent \/ (f # Torn /\ f.dflt # "")

\* New and its first Reload: a missing file is a fresh deployment, everybody is
\* trusted.
ZoneInit ==
    /\ zoneFile \in HandEdits \cup {Absent}
    /\ zones = Loaded(Fresh, zoneFile) /\ zoneTmp = Absent
    /\ zoneOp = [c \in Callers |-> ZoneIdle] /\ zoneOps = 0
    /\ spoiled = ~Whole(zoneFile)

\* What Add, Remove and SetDefault may make of memory, and what Add added.
Changes(mem) ==
    {[mem |-> [mem EXCEPT !.assign = Append(@, a)], added |-> <<a>>] : a \in Assignment}
    \cup {[mem |-> [mem EXCEPT !.assign = RemoveAt(@, i)], added |-> <<>>] : i \in DOMAIN mem.assign}
    \cup {[mem |-> [mem EXCEPT !.dflt = l], added |-> <<>>] : l \in Labels}

Counted == zoneOps < MaxZoneOps /\ zoneOps' = zoneOps + 1
At(c, pc) == zoneOp[c].pc = pc
Goes(c, op) == zoneOp' = [zoneOp EXCEPT ![c] = op]

(***************************************************************************)
(* The calls.                                                              *)
(***************************************************************************)
\* A request: memory first, under the lock.
ZoneSet(c) ==
    /\ c \in Requests /\ At(c, "idle") /\ Counted
    /\ \E ch \in Changes(zones) :
        zones' = ch.mem /\ Goes(c, [pc |-> "copy", added |-> ch.added])
    /\ UNCHANGED <<zoneFile, zoneTmp, spoiled>>

\* persist copies what memory holds by then.
ZoneCopy(c) ==
    /\ At(c, "copy")
    /\ Goes(c, [pc |-> "open", added |-> zoneOp[c].added, data |-> zones])
    /\ UNCHANGED <<zones, zoneFile, zoneTmp, zoneOps, spoiled>>

\* xhelixctl loads the file into a manager of its own, unless it does not
\* parse, and changes that.
ZoneTool(c) ==
    /\ c \in Tools /\ At(c, "idle") /\ Counted /\ zoneFile # Torn
    /\ \E ch \in Changes(Loaded(Fresh, zoneFile)) :
        Goes(c, [pc |-> "open", added |-> ch.added, data |-> ch.mem])
    /\ UNCHANGED <<zones, zoneFile, zoneTmp, spoiled>>

\* Mutant of ZoneOpen: the file itself is opened and written.
ZoneOpenInPlace(c) ==
    /\ At(c, "open")
    /\ zoneFile' = Blank /\ zoneTmp' = Blank
    /\ Goes(c, [pc |-> "write", data |-> zoneOp[c].data, at |-> "file"])
    /\ spoiled' = (spoiled \/ \E d \in Callers \ {c} : At(d, "write") \/ At(d, "rename"))
    /\ UNCHANGED <<zones, zoneOps>>

\* The temporary file is opened and truncated, whoever else has it open, or
\* the disk refuses, as a read-only /etc does.
ZoneOpen(c) ==
    /\ At(c, "open")
    /\ \/ /\ zoneTmp' = Blank
          /\ Goes(c, [pc |-> "write", data |-> zoneOp[c].data, at |-> "tmp"])
          /\ spoiled' = (spoiled \/ \E d \in Callers \ {c} : At(d, "write") \/ At(d, "rename"))
       \/ Goes(c, ZoneIdle) /\ UNCHANGED <<zoneTmp, spoiled>>
    /\ UNCHANGED <<zones, zoneFile, zoneOps>>

\* What a write from the start leaves of a file: the end of something longer
\* may stick out behind it.
Over(f, data) == IF f \in {Blank, data} THEN {data} ELSE {data, Torn}

\* The write goes to the open file, whatever its name is now, or fails half way.
ZoneWrite(c) ==
    /\ At(c, "write")
    /\ \E ok \in BOOLEAN :
        LET left(f) == IF ok THEN Over(f, zoneOp[c].data) ELSE {f, Torn} IN
        /\ zoneTmp' \in IF zoneOp[c].at = "tmp" THEN left(zoneTmp) ELSE {zoneTmp}
        /\ zoneFile' \in IF zoneOp[c].at = "file" THEN left(zoneFile) ELSE {zoneFile}
        /\ Goes(c, IF ok THEN [pc |-> "rename"] ELSE ZoneIdle)
    /\ UNCHANGED <<zones, zoneOps, spoiled>>

\* The file a caller has open gets another name, or loses its last.
Renamed(op) ==
    IF op.pc = "write" THEN [op EXCEPT !.at = IF @ = "tmp" THEN "file" ELSE "gone"] ELSE op
Unlinked(op) ==
    IF op.pc = "write" /\ op.at = "file" THEN [op EXCEPT !.at = "gone"] ELSE op

\* The temporary file may have been renamed by somebody else already.
ZoneRename(c) ==
    /\ At(c, "rename")
    /\ IF zoneTmp = Absent THEN Goes(c, ZoneIdle) /\ UNCHANGED <<zoneFile, zoneTmp>>
       ELSE /\ zoneFile' = zoneTmp /\ zoneTmp' = Absent
            /\ zoneOp' = [d \in Callers |-> IF d = c THEN ZoneIdle ELSE Renamed(zoneOp[d])]
    /\ UNCHANGED <<zones, zoneOps, spoiled>>

\* Reload, by the watcher or a request, reads the file outside the lock.
ZoneReload(c) ==
    /\ At(c, "idle")
    /\ \/ c \in Requests /\ Counted
       \/ c = "watcher" /\ UNCHANGED zoneOps
    /\ Goes(c, [pc |-> "swap", data |-> zoneFile])
    /\ UNCHANGED <<zones, zoneFile, zoneTmp, spoiled>>

ZoneSwap(c) ==
    /\ At(c, "swap")
    /\ zones' = Loaded(zones, zoneOp[c].data)
    /\ Goes(c, ZoneIdle)
    /\ UNCHANGED <<zoneFile, zoneTmp, zoneOps, spoiled>>

(***************************************************************************)
(* The operator's editor, and the daemon's restart.                        *)
(***************************************************************************)
EditZoneFile(f) ==
    /\ f # zoneFile /\ Counted
    /\ zoneFile' = f
    /\ zoneOp' = [c \in Callers |-> Unlinked(zoneOp[c])]
    /\ spoiled' = (spoiled \/ ~Whole(f))
    /\ UNCHANGED <<zones, zoneTmp>>

ZoneRestart ==
    /\ zones' = Loaded(Fresh, zoneFile)
    /\ zoneOp' = [c \in Callers |-> IF c \in Tools THEN zoneOp[c] ELSE ZoneIdle]
    /\ UNCHANGED <<zoneFile, zoneTmp, zoneOps, spoiled>>

Persist(c) == ZoneCopy(c) \/ ZoneOpen(c) \/ ZoneWrite(c) \/ ZoneRename(c)

ZoneStep ==
    \/ \E c \in Callers : ZoneSet(c) \/ ZoneTool(c) \/ Persist(c) \/ ZoneReload(c) \/ ZoneSwap(c)
    \/ \E f \in HandEdits : EditZoneFile(f)

ZoneNext == ZoneStep \/ ZoneRestart

ZoneSpec == ZoneInit /\ [][ZoneNext]_zoneVars

\* The watcher ticks and every call goes on.
ZoneFairSpec ==
    /\ ZoneSpec
    /\ \A c \in Callers : WF_zoneVars(Persist(c) \/ ZoneSwap(c))
    /\ WF_zoneVars(ZoneReload("watcher"))

(***************************************************************************)
(* Lookup and Decide, which the pipeline calls.                            *)
(***************************************************************************)
\* The first assignment that matches wins.
Lookup(s) ==
    LET own == SelectSeq(zones.assign, LAMBDA a : a.subject = s)
    IN  IF own = <<>> THEN zones.dflt ELSE Head(own).label

\* Manager.Decide: label and destination to action.
ZoneDecide(s, d) ==
    LET l == Lookup(s) IN
    CASE l = "trusted" -> "allow"
      [] l = "restricted" -> IF d \in SafeDests \cup Internal THEN "allow" ELSE "verify"
      [] l = "untrusted" -> IF d \in Internal THEN "allow" ELSE "deny"
      [] l = "tor_only" -> IF d \in TorPorts THEN "allow" ELSE "tor_require"

(***************************************************************************)
(* Properties.                                                             *)
(***************************************************************************)
\* The state stays in its domain.
ZoneTypeOK ==
    /\ zones \in Memory
    /\ {zoneFile, zoneTmp} \subseteq Written \cup {Absent, Torn}
    /\ \A c \in Callers : zoneOp[c].pc \in {"idle", "copy", "open", "write", "rename", "swap"}
    /\ zoneOps \in 0..MaxZoneOps /\ spoiled \in BOOLEAN


\* A persist is seen whole or not at all, whatever fails and whenever the
\* daemon dies, provided no two overlapped; an empty or torn file would turn
\* every label off at the next start.
PersistIsWhole == spoiled \/ Whole(zoneFile)

(***************************************************************************)
(* What comments say and the code does not do.                             *)
(***************************************************************************)
\* zone.go:237: "persist writes the current state to disk atomically".  Two
\* requests, or a request and the tool, share one temporary file.
PersistAtomic == Whole(zoneFile)

\* zone.go:194: Add "appends an assignment and persists to disk".  A reload
\* that read the file before and stores it between Add's two critical sections
\* undoes the change, and Add returns no error.
ZoneChangePersisted ==
    \A c \in Requests : At(c, "open") =>
        \A k \in DOMAIN zoneOp[c].added : Contains(zoneOp[c].data.assign, zoneOp[c].added[k])

\* zone.go:91-92: "the manager keeps its current in-memory state if the file
\* vanishes".  Reload drops the assignments.
VanishedFileKeepsZones ==
    [][\A c \in Callers : ZoneSwap(c) /\ zoneOp[c].data = Absent => zones' = zones]_zoneVars
=============================================================================
