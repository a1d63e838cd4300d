----------------------------- MODULE PolicyStore -----------------------------
(***************************************************************************)
(* Signed egress policies: the directory, the Store's map of verified      *)
(* policies, the 30-second watcher and the handlers that install and       *)
(* delete a policy while the watcher scans; and Engine.Decide, which reads *)
(* the map for every connect.                                              *)
(***************************************************************************)
EXTENDS Naturals, FiniteSets, Sequences

CONSTANTS
    Binaries,   \* programs that have or may get a policy file
    Dests,      \* destinations
    Policies,   \* signed policies: [mode, only, cgroups, allow, deny]
    NoPolicy,   \* no file, no entry
    Bad,        \* a file that does not parse or verify: torn, unsigned, altered
    TorDest,    \* the local Tor SOCKS endpoint
    MaxEdits    \* bound: installs, deletions, edits and restarts together

ASSUME PolicyAssumption ==
    /\ IsFiniteSet(Binaries) /\ IsFiniteSet(Dests) /\ MaxEdits \in Nat
    /\ NoPolicy \notin Policies /\ Bad \notin Policies /\ NoPolicy # Bad

VARIABLES
    file,       \* the directory
    policies,   \* Store.policies
    scan,       \* what a Reload in progress has left to read and has loaded
    handler,    \* the install, delete or reload request being served
    edits       \* edits so far

storeVars == <<file, policies, scan, handler>>

Scanners == {"watcher", "handler"}
NoScan == [on |-> FALSE, todo |-> {}, loaded |-> <<>>]
Idle == [pc |-> "idle"]
None == [b \in Binaries |-> NoPolicy]

\* loadSignedFile and Verify: only what the operator signed gets through.
Verified(c) == IF c \in Policies THEN c ELSE NoPolicy
Loadable == [b \in Binaries |-> Verified(file[b])]

StoreInit ==
    /\ file \in [Binaries -> Policies \cup {NoPolicy}]
    /\ policies = [b \in Binaries |-> Verified(file[b])]
    /\ scan = [s \in Scanners |-> NoScan]
    /\ handler = Idle /\ edits = 0

MayEdit == edits < MaxEdits /\ edits' = edits + 1

(***************************************************************************)
(* Reload: list the directory, read file after file, swap the map.         *)
(***************************************************************************)
ScanBegin(s) ==
    /\ ~scan[s].on /\ (s = "handler" => handler.pc = "reload")
    /\ scan' = [scan EXCEPT ![s] = [on |-> TRUE, todo |-> {b \in Binaries : file[b] # NoPolicy},
                                    loaded |-> None]]
    /\ UNCHANGED <<file, policies, handler, edits>>

ScanFile(s, b) ==
    /\ scan[s].on /\ b \in scan[s].todo
    /\ scan' = [scan EXCEPT ![s].todo = @ \ {b}, ![s].loaded[b] = Verified(file[b])]
    /\ UNCHANGED <<file, policies, handler, edits>>

\* Mutant of ScanEnd: what was loaded is added to the map.
ScanEndMerging(s) ==
    /\ scan[s].on /\ scan[s].todo = {}
    /\ policies' = [b \in Binaries |-> IF scan[s].loaded[b] = NoPolicy THEN policies[b]
                                       ELSE scan[s].loaded[b]]
    /\ scan' = [scan EXCEPT ![s] = NoScan]
    /\ handler' = IF s = "handler" THEN Idle ELSE handler
    /\ UNCHANGED <<file, edits>>

ScanEnd(s) ==
    /\ scan[s].on /\ scan[s].todo = {}
    /\ policies' = scan[s].loaded
    /\ scan' = [scan EXCEPT ![s] = NoScan]
    /\ handler' = IF s = "handler" THEN Idle ELSE handler
    /\ UNCHANGED <<file, edits>>

\* The directory cannot be listed: the map stays as it is.
ReloadRefused ==
    /\ handler.pc = "reload" /\ ~scan["handler"].on
    /\ handler' = Idle
    /\ UNCHANGED <<file, policies, scan, edits>>

(***************************************************************************)
(* The handlers.  Only a verified policy gets past VerifyAndSave.          *)
(***************************************************************************)
\* os.WriteFile truncates before it writes.
Install(b, p) ==
    /\ handler.pc = "idle" /\ MayEdit
    /\ handler' = [pc |-> "write", binary |-> b, policy |-> p]
    /\ file' = [file EXCEPT ![b] = Bad]
    /\ UNCHANGED <<policies, scan>>

InstallWrite ==
    /\ handler.pc = "write"
    /\ \/ /\ file' = [file EXCEPT ![handler.binary] = handler.policy]
          /\ handler' = [handler EXCEPT !.pc = "cache"]
       \/ /\ handler' = Idle   \* the disk is full: the old file is gone too
          /\ UNCHANGED file
    /\ UNCHANGED <<policies, scan, edits>>

Delete(b) ==
    /\ handler.pc = "idle" /\ MayEdit
    /\ file' = [file EXCEPT ![b] = NoPolicy]
    /\ handler' = [pc |-> "cache", binary |-> b, policy |-> NoPolicy]
    /\ UNCHANGED <<policies, scan>>

\* Save and Delete put the map right under the lock; the handler goes on to
\* Reload.
Cache ==
    /\ handler.pc = "cache"
    /\ policies' = [policies EXCEPT ![handler.binary] = handler.policy]
    /\ handler' = [pc |-> "reload"]
    /\ UNCHANGED <<file, scan, edits>>

ReloadRequest ==
    /\ handler.pc = "idle" /\ MayEdit
    /\ handler' = [pc |-> "reload"]
    /\ UNCHANGED <<file, policies, scan>>

\* The operator works in the directory.
EditFile(b, c) ==
    /\ c # file[b] /\ MayEdit
    /\ file' = [file EXCEPT ![b] = c]
    /\ UNCHANGED <<policies, scan, handler>>

\* The daemon starts again and loads the directory before it serves.
StoreRestart ==
    /\ policies' = Loadable
    /\ scan' = [s \in Scanners |-> NoScan]
    /\ handler' = Idle
    /\ UNCHANGED file

StoreStep ==
    \/ \E s \in Scanners : ScanBegin(s) \/ ScanEnd(s) \/ \E b \in Binaries : ScanFile(s, b)
    \/ ReloadRefused \/ InstallWrite \/ Cache \/ ReloadRequest
    \/ \E b \in Binaries : Delete(b) \/ \E p \in Policies : Install(b, p)
    \/ \E b \in Binaries, c \in Policies \cup {NoPolicy, Bad} : EditFile(b, c)

(***************************************************************************)
(* Engine.Decide.                                                          *)
(***************************************************************************)
\* cgroup_class and dest_class are stamped on the event after this stage has
\* run: it always sees the empty string.
CgroupTag == ""
DestClassTag == ""

InScope(p, b) ==
    /\ p.only # {} => b \in p.only
    /\ p.cgroups # {} => CgroupTag \in p.cgroups

MatchRule(r, d) == d \in r.dests /\ (r.class # "" => r.class = DestClassTag)

\* The action, and whether a policy stamped its id.
Decide(b, d) ==
    LET p == IF b \in Binaries THEN policies[b] ELSE NoPolicy
        by(action) == [action |-> action, id |-> TRUE]
    IN  IF p = NoPolicy THEN [action |-> "observe", id |-> FALSE]
        ELSE IF ~InScope(p, b) THEN by("observe")
        ELSE CASE p.mode = "allow_any" -> by("allow")
               [] p.mode = "observe" -> by("observe")
               [] p.mode = "tor_only" -> by(IF d = TorDest THEN "allow" ELSE "deny")
               [] p.mode = "deny_default" ->
                    by(IF (\A r \in p.deny : ~MatchRule(r, d)) /\ (\E r \in p.allow : MatchRule(r, d))
                       THEN "allow" ELSE "deny")
=============================================================================
