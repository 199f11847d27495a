----------------------------- MODULE HostManager -----------------------------
(***************************************************************************)
(* gre-manager.sh on one server: the configuration files of its            *)
(* connections, the GRE interfaces and the iptables rules they stand for,  *)
(* the commands that change them (add, edit, remove, apply) with the edit  *)
(* transaction and its rollback, and the two jobs systemd starts: the      *)
(* watchdog, and --apply at boot.                                          *)
(*                                                                         *)
(* An IRAN server keeps a peer per FOREIGN server in foreigns/<name>.conf, *)
(* a FOREIGN server a node per IRAN server in nodes/<name>.conf; both call *)
(* the interface gre-<name>.  The script takes no lock: the commands are   *)
(* serialised by whoever calls it (the Hub locks the server, see           *)
(* ConnectionEdit), the jobs of systemd run at any time.                   *)
(*                                                                         *)
(* net stands for subnet base and index, each net with a base of its own;  *)
(* link for the two endpoints and the key, different links having          *)
(* different IRAN addresses; ports for the port lists; mss for the clamp,  *)
(* whose value follows from the MTU.  A FOREIGN server has                 *)
(* GRE_WHITELIST=1, the default of foreign setup.                          *)
(***************************************************************************)
EXTENDS Naturals

CONSTANTS
  Names,     \* names of connections
  Nets,      \* tunnel subnets
  Links,     \* endpoints and keys
  Ports,     \* ports an IRAN server may forward
  Requested, \* the configurations that commands ask for
  None,      \* no such file, interface or address
  MaxEvents  \* bound: commands, create_tunnel calls that fail, commands cut
             \* short and restarts, taken together

Confs == [net: Nets, link: Links, ports: SUBSET Ports, mss: BOOLEAN]
Tuns == [net: Nets \cup {None}, link: Links, up: BOOLEAN]

ASSUME HostAssumption ==
  /\ Requested \subseteq Confs
  /\ None \notin Names \cup Nets \cup Confs \cup Tuns
ASSUME HostBoundsAssumption == MaxEvents \in Nat

VARIABLES
  side,   \* the role of this server: "iran" or "foreign"
  conf,   \* name -> its file, or None
  tun,    \* name -> interface gre-<name>, or None
  rules,  \* the iptables rules with a comment of the manager
  cli,    \* the command being run, or the last one
  pass,   \* the run of the watchdog, or of --apply at boot
  raced,  \* names that a command and a job handled at once, or left half done
  torn,   \* pairs of names of a rename cut short between its two files
  spent   \* what has been spent of MaxEvents

vars == <<side, conf, tun, rules, cli, pass, raced, torn, spent>>

\* --------------------------------------------------------------- rules
DnatRule(n, c) == [kind |-> "dnat", name |-> n, net |-> c.net,
                   link |-> c.link, ports |-> c.ports]
SnatRule(n, c) == [kind |-> "snat", name |-> n, net |-> c.net]
MssRule(n) == [kind |-> "mss", name |-> n]
AcceptRule(n, c) == [kind |-> "accept", name |-> n, link |-> c.link]

NatRules(n, c) ==
  IF c.ports = {} THEN {} ELSE {DnatRule(n, c), SnatRule(n, c)}

\* peer_rules_install, which adds what is missing.
Installed(n, c) == NatRules(n, c) \cup (IF c.mss THEN {MssRule(n)} ELSE {})

\* Mutant of Removed: the SNAT rule stays.
RemovedButSnat(n, c) == {DnatRule(n, c)}

\* peer_rules_remove: exact specifications.  Those for the clamp have a comment
\* ending in * and no --set-mss; iptables compares comments literally, so they
\* are not the specification of an installed clamp.
Removed(n, c) == {DnatRule(n, c), SnatRule(n, c)}

\* The rules a file of this server stands for.
RulesOf(n, c) == IF side = "iran" THEN Installed(n, c) ELSE {AcceptRule(n, c)}

\* ---------------------------------------------------------- interfaces
LiveTun(c) == [net |-> c.net, link |-> c.link, up |-> TRUE]

\* create_tunnel deletes the interface, then: ip tunnel add, ip addr add and
\* ip link set up; one that fails leaves what the ones before it made.
BrokenTuns(c) == {None, [net |-> None, link |-> c.link, up |-> FALSE],
                  [net |-> c.net, link |-> c.link, up |-> FALSE]}

Create(n, t) == tun' = [tun EXCEPT ![n] = t]

\* edit_verify_tunnel
Verified(n, c) == tun[n] # None /\ tun[n].net = c.net

\* Mutant of CanPing: the watchdog looks for the interface only.
CanSee(n) == conf[n] # None /\ tun[n] # None

\* What an answer to the ping of the tunnel's far end takes on this server.
CanPing(n) == conf[n] # None /\ tun[n] # None /\ tun[n].up /\ tun[n].net = conf[n].net

\* --------------------------------------------------------------- files
Configured == {n \in Names : conf[n] # None}

\* Two files claim one subnet, or one port; nodes have no ports.
Clash(c, d) == c.net = d.net \/ c.ports \cap d.ports # {}

\* Mutant of CollisionFree: an edit does not compare ports.
NetFree(c, skipped) == \A m \in Configured \ skipped : c.net # conf[m].net

\* check_peer_collisions, and on a FOREIGN server node_idx_taken and the loop
\* of edit_connection_txn; skipped are the names of the connection itself.
CollisionFree(c, skipped) == \A m \in Configured \ skipped : ~Clash(c, conf[m])

\* subnet_route_conflict: an address of an interface that is up is a route.
RouteConflict(net) == \E m \in Names : tun[m] # None /\ tun[m].up /\ tun[m].net = net

\* What a request can ask of this server: a node has neither ports nor a clamp.
Askable == IF side = "iran" THEN Requested
           ELSE {[c EXCEPT !.ports = {}, !.mss = FALSE] : c \in Requested}

----------------------------------------------------------------------------
Idle == cli.pc = "idle"

Busy(n) == ~Idle /\ n \in {cli.old, cli.new}

NoCli == [pc |-> "idle", kind |-> "none", old |-> None, new |-> None,
          was |-> None, want |-> None, out |-> "none"]
NoPass == [pc |-> "idle", mode |-> "watch", todo |-> {}, cur |-> None, rec |-> None]

\* Any set of connections that exclude each other, with everything in place.
Init ==
  /\ side \in {"iran", "foreign"}
  /\ conf \in [Names -> Askable \cup {None}]
  /\ \A n, m \in Configured : n # m => ~Clash(conf[n], conf[m])
  /\ tun = [n \in Names |-> IF conf[n] = None THEN None ELSE LiveTun(conf[n])]
  /\ rules = UNION {RulesOf(n, conf[n]) : n \in Configured}
  /\ cli = NoCli /\ pass = NoPass
  /\ raced = {} /\ torn = {}
  /\ spent = 0

Begin(pc, kind, old, new, was, want) ==
  /\ Idle /\ spent < MaxEvents
  /\ cli' = [pc |-> pc, kind |-> kind, old |-> old, new |-> new,
             was |-> was, want |-> want, out |-> "none"]
  /\ raced' = IF pass.pc = "rule" /\ pass.cur \in {old, new}
              THEN raced \cup {pass.cur} ELSE raced
  /\ spent' = spent + 1
  /\ UNCHANGED <<side, pass, torn>>

Goto(pc) == cli' = [cli EXCEPT !.pc = pc]
Finish(out) == cli' = [NoCli EXCEPT !.out = out]

\* cli_iran_peer_add with create_iran_peer, and cli_node_add: the file first.
BeginAdd(n, c) ==
  /\ conf[n] = None
  /\ CollisionFree(c, {n})
  /\ side = "iran" => ~RouteConflict(c.net)
  /\ Begin("create", "add", n, n, None, c)
  /\ conf' = [conf EXCEPT ![n] = c]
  /\ UNCHANGED <<tun, rules>>

\* cli_iran_peer_edit and cli_node_edit: the snapshot, the plan and the checks
\* of edit_connection_txn.
Snapshot(n) == conf[n]

BeginEdit(n, m, c) ==
  /\ conf[n] # None
  /\ m # n \/ c # conf[n]
  /\ CollisionFree(c, {n, m})
  /\ side = "iran" /\ c.net # conf[n].net => ~RouteConflict(c.net)
  /\ m # n => conf[m] = None
  /\ Begin(IF side = "iran" THEN "unrule" ELSE "create", "edit", n, m, Snapshot(n), c)
  /\ UNCHANGED <<conf, tun, rules>>

\* cli_iran_peer_remove and cli_node_remove
BeginRemove(n) ==
  /\ conf[n] # None
  /\ Begin("stop", "remove", n, n, conf[n], conf[n])
  /\ UNCHANGED <<conf, tun, rules>>

\* cli_iran_peer_apply
BeginApply(n) ==
  /\ side = "iran" /\ conf[n] # None
  /\ Begin("create", "apply", n, n, conf[n], conf[n])
  /\ UNCHANGED <<conf, tun, rules>>

----------------------------------------------------------------------------
At(pc) == cli.pc = pc /\ UNCHANGED <<side, pass, raced, torn>>

\* Class B of plan_edit; a change of ports and clamp alone is of class A.
RebuildsTunnel == \/ cli.old # cli.new
                  \/ cli.was.net # cli.want.net \/ cli.was.link # cli.want.link

\* An IRAN edit takes the old rules out first, whatever its class.
Unrule ==
  /\ At("unrule")
  /\ rules' = rules \ Removed(cli.old, cli.was)
  /\ Goto(IF RebuildsTunnel THEN "create" ELSE "rule")
  /\ UNCHANGED <<conf, tun, spent>>

CreateDone ==
  /\ At("create")
  /\ Create(cli.new, LiveTun(cli.want))
  /\ Goto(IF side = "iran" THEN "rule"
          ELSE IF cli.kind = "edit" THEN "verify" ELSE "accept")
  /\ UNCHANGED <<conf, rules, spent>>

CreateFails ==
  /\ At("create") /\ spent < MaxEvents
  /\ \E t \in BrokenTuns(cli.want) : Create(cli.new, t)
  /\ \/ cli.kind = "edit" /\ Goto("down")
     \/ cli.kind = "apply" /\ Finish("failed")
     \/ cli.kind = "add" /\ Goto(IF side = "iran" THEN "stop" ELSE "drop")
  /\ spent' = spent + 1
  /\ UNCHANGED <<conf, rules>>

Rule ==
  /\ At("rule")
  /\ rules' = rules \cup Installed(cli.new, cli.want)
  /\ IF cli.kind = "edit" THEN Goto("verify") ELSE Finish("ok")
  /\ UNCHANGED <<conf, tun, spent>>

Verify ==
  /\ At("verify")
  /\ Goto(IF Verified(cli.new, cli.want) THEN "file" ELSE "down")
  /\ UNCHANGED <<conf, tun, rules, spent>>

\* The new file; after a rename the old one and the old interface go.
Commit ==
  /\ At("file")
  /\ conf' = [conf EXCEPT ![cli.new] = cli.want]
  /\ \/ cli.old # cli.new /\ Goto("unfile")
     \/ cli.old = cli.new /\ side = "foreign" /\ Goto("accept")
     \/ cli.old = cli.new /\ side = "iran" /\ Finish("ok")
  /\ UNCHANGED <<tun, rules, spent>>

Unfile ==
  /\ At("unfile")
  /\ conf' = [conf EXCEPT ![cli.old] = None]
  /\ Goto("untun")
  /\ UNCHANGED <<tun, rules, spent>>

Untun ==
  /\ At("untun")
  /\ Create(cli.old, None)
  /\ IF side = "foreign" THEN Goto("accept") ELSE Finish("ok")
  /\ UNCHANGED <<conf, rules, spent>>

\* The whitelist: cli_node_add reads GRE_WHITELIST from foreign.conf;
\* cli_node_edit does not, so it drops the rule of a node it renamed or moved
\* and finds the whitelist off.
Accept ==
  /\ At("accept")
  /\ rules' = IF cli.kind = "add" THEN rules \cup {AcceptRule(cli.new, cli.want)}
              ELSE IF cli.old # cli.new \/ cli.was.link # cli.want.link
              THEN rules \ {AcceptRule(cli.old, cli.was)} ELSE rules
  /\ Finish("ok")
  /\ UNCHANGED <<conf, tun, spent>>

\* stop_iran_peer, which looks for the clamp of an older release only; or
\* what cli_node_remove takes down.
Stop ==
  /\ At("stop")
  /\ Create(cli.new, None)
  /\ rules' = rules \ (IF side = "iran" THEN NatRules(cli.new, cli.want)
                       ELSE {AcceptRule(cli.new, cli.want)})
  /\ Goto("drop")
  /\ UNCHANGED <<conf, spent>>

Drop ==
  /\ At("drop")
  /\ conf' = [conf EXCEPT ![cli.new] = None]
  /\ Finish(IF cli.kind = "remove" THEN "ok" ELSE "failed")
  /\ UNCHANGED <<tun, rules, spent>>

\* ------------------------------------------------------- edit_rollback
Down ==
  /\ At("down")
  /\ tun' = IF cli.new = cli.old THEN tun ELSE [tun EXCEPT ![cli.new] = None]
  /\ rules' = IF side = "iran" THEN rules \ Removed(cli.new, cli.want) ELSE rules
  /\ Goto("back")
  /\ UNCHANGED <<conf, spent>>

\* Mutant of Back: the bytes go to the requested name.
BackAsRequested ==
  /\ At("back")
  /\ conf' = [conf EXCEPT ![cli.new] = cli.was]
  /\ Goto("rebuild")
  /\ UNCHANGED <<tun, rules, spent>>

Back ==
  /\ At("back")
  /\ conf' = [conf EXCEPT ![cli.old] = cli.was]
  /\ Goto("rebuild")
  /\ UNCHANGED <<tun, rules, spent>>

Rebuild ==
  /\ At("rebuild")
  /\ \/ /\ Create(cli.old, LiveTun(cli.was))
        /\ UNCHANGED spent
     \/ /\ spent < MaxEvents
        /\ \E t \in BrokenTuns(cli.was) : Create(cli.old, t)
        /\ spent' = spent + 1
  /\ Goto(IF side = "iran" THEN "rerule" ELSE "reverify")
  /\ UNCHANGED <<conf, rules>>

\* Mutant of Rerule: file and interface come back, the rules do not.
RerulesNothing ==
  /\ At("rerule")
  /\ Finish("restored")
  /\ UNCHANGED <<conf, tun, rules, spent>>

\* The IRAN side reports success without looking, the FOREIGN side looks.
Rerule ==
  /\ At("rerule")
  /\ rules' = (rules \ Removed(cli.old, cli.was)) \cup Installed(cli.old, cli.was)
  /\ Finish("restored")
  /\ UNCHANGED <<conf, tun, spent>>

Reverify ==
  /\ At("reverify")
  /\ Finish(IF Verified(cli.old, cli.was) THEN "restored" ELSE "lost")
  /\ UNCHANGED <<conf, tun, rules, spent>>

CliStep ==
  \/ Unrule \/ CreateDone \/ CreateFails \/ Rule \/ Verify \/ Commit
  \/ Unfile \/ Untun \/ Accept \/ Stop \/ Drop
  \/ Down \/ Back \/ Rebuild \/ Rerule \/ Reverify

----------------------------------------------------------------------------
\* watchdog_run, started by its timer; the loop goes over the files there are
\* when it begins.
BeginWatch ==
  /\ pass.pc = "idle"
  /\ pass' = [NoPass EXCEPT !.pc = "go", !.todo = Configured]
  /\ UNCHANGED <<side, conf, tun, rules, cli, raced, torn, spent>>

Visit(n, pc, cur) ==
  /\ pass.pc = "go" /\ n \in pass.todo
  /\ pass' = [pass EXCEPT !.pc = pc, !.todo = @ \ {n}, !.cur = cur]
  /\ UNCHANGED <<side, conf, tun, rules, cli, raced, torn, spent>>

\* The file is gone, or the watchdog finds the tunnel answering.
Skip(n) == /\ conf[n] = None \/ (pass.mode = "watch" /\ CanPing(n))
           /\ Visit(n, "go", None)

\* --apply takes every file; a ping may fail for reasons of the far end.
NeedsApply(n) == conf[n] # None /\ Visit(n, "apply", n)

\* apply_iran_peer and apply_foreign_node read the file, build the interface
\* and, on an IRAN server, install the rules of what they have read.
NextFile == pass' = [pass EXCEPT !.pc = "go", !.cur = None, !.rec = None]
Overlap == raced' = IF Busy(pass.cur) THEN raced \cup {pass.cur} ELSE raced

ApplyGone ==
  /\ pass.pc = "apply" /\ conf[pass.cur] = None
  /\ NextFile
  /\ UNCHANGED <<side, conf, tun, rules, cli, raced, torn, spent>>

ApplyTun ==
  /\ pass.pc = "apply" /\ conf[pass.cur] # None
  /\ \/ /\ Create(pass.cur, LiveTun(conf[pass.cur]))
        /\ pass' = IF side = "iran" THEN [pass EXCEPT !.pc = "rule", !.rec = conf[pass.cur]]
                   ELSE [pass EXCEPT !.pc = "go", !.cur = None]
        /\ UNCHANGED spent
     \/ /\ spent < MaxEvents
        /\ \E t \in BrokenTuns(conf[pass.cur]) : Create(pass.cur, t)
        /\ NextFile
        /\ spent' = spent + 1
  /\ Overlap
  /\ UNCHANGED <<side, conf, rules, cli, torn>>

ApplyRules ==
  /\ pass.pc = "rule"
  /\ rules' = rules \cup Installed(pass.cur, pass.rec)
  /\ NextFile
  /\ Overlap
  /\ UNCHANGED <<side, conf, tun, cli, torn, spent>>

\* apply_foreign ends with the whitelist; the watchdog does not touch it.
EndPass ==
  /\ pass.pc = "go" /\ pass.todo = {}
  /\ pass' = NoPass
  /\ IF side = "foreign" /\ pass.mode = "boot"
     THEN /\ rules' = rules \cup {AcceptRule(n, conf[n]) : n \in Configured}
          /\ raced' = IF Idle THEN raced ELSE raced \cup {cli.old, cli.new}
     ELSE UNCHANGED <<rules, raced>>
  /\ UNCHANGED <<side, conf, tun, cli, torn, spent>>

PassStep ==
  \/ BeginWatch \/ ApplyGone \/ ApplyTun \/ ApplyRules \/ EndPass
  \/ \E n \in Names : Skip(n) \/ NeedsApply(n)

----------------------------------------------------------------------------
\* A command ends with its SSH session or its server, between any two steps.
CutShort ==
  /\ spent < MaxEvents
  /\ spent' = spent + 1
  /\ IF Idle THEN UNCHANGED cli ELSE Finish("killed")
  /\ torn' = IF cli.pc = "unfile" THEN torn \cup {<<cli.old, cli.new>>} ELSE torn

Kill ==
  /\ ~Idle /\ CutShort
  /\ raced' = raced \cup {cli.old, cli.new}
  /\ UNCHANGED <<side, conf, tun, rules, pass>>

\* Files outlive a restart, interfaces and rules do not; multi-gre.service
\* runs --apply.
Reboot ==
  /\ CutShort
  /\ tun' = [n \in Names |-> None] /\ rules' = {}
  /\ raced' = {}
  /\ pass' = [NoPass EXCEPT !.pc = "go", !.mode = "boot", !.todo = Configured]
  /\ UNCHANGED <<side, conf>>

Next ==
  \/ \E n \in Names, c \in Askable : BeginAdd(n, c)
  \/ \E n, m \in Names, c \in Askable : BeginEdit(n, m, c)
  \/ \E n \in Names : BeginRemove(n) \/ BeginApply(n)
  \/ CliStep \/ PassStep \/ Kill \/ Reboot

\* A command runs to its end; the timer starts the watchdog again and again.
Spec == Init /\ [][Next]_vars /\ WF_vars(CliStep) /\ WF_vars(PassStep)
----------------------------------------------------------------------------
CliPcs == {"idle", "unrule", "create", "rule", "verify", "file", "unfile", "untun",
           "accept", "stop", "drop", "down", "back", "rebuild", "rerule", "reverify"}
Kinds == {"none", "add", "edit", "remove", "apply"}
Outcomes == {"none", "ok", "failed", "restored", "lost", "killed"}

RuleSet == [kind: {"dnat"}, name: Names, net: Nets, link: Links, ports: SUBSET Ports]
           \cup [kind: {"snat"}, name: Names, net: Nets]
           \cup [kind: {"mss"}, name: Names]
           \cup [kind: {"accept"}, name: Names, link: Links]

\* The state has its types, and a command that is running knows its names and
\* configurations: what it asks for and, unless it adds, what it started from
\* (cli_iran_peer_edit, edit_snapshot_current).
HostTypeOK ==
  /\ side \in {"iran", "foreign"}
  /\ conf \in [Names -> Confs \cup {None}]
  /\ tun \in [Names -> Tuns \cup {None}]
  /\ rules \subseteq RuleSet
  /\ cli \in [pc: CliPcs, kind: Kinds, old: Names \cup {None}, new: Names \cup {None},
              was: Confs \cup {None}, want: Confs \cup {None}, out: Outcomes]
  /\ ~Idle => /\ {cli.old, cli.new} \subseteq Names /\ cli.want \in Confs
              /\ cli.kind # "add" => cli.was \in Confs
  /\ pass \in [pc: {"idle", "go", "apply", "rule"}, mode: {"watch", "boot"},
               todo: SUBSET Names, cur: Names \cup {None}, rec: Confs \cup {None}]
  /\ pass.pc \in {"apply", "rule"} => pass.cur \in Names
  /\ pass.pc = "rule" => pass.rec \in Confs
  /\ raced \subseteq Names /\ torn \subseteq Names \X Names
  /\ spent \in 0..MaxEvents

\* No two files claim one subnet, nor one port on an IRAN server ("belongs to
\* exactly ONE foreign", check_peer_collisions), through renames, rollbacks and
\* commands cut short; only the two files of one rename may, while it runs or
\* when it was cut short between them.
Renaming(n, m) == \/ <<n, m>> \in torn \/ <<m, n>> \in torn
                  \/ cli.pc = "unfile" /\ {n, m} = {cli.old, cli.new}

FilesDisjoint ==
  \A n, m \in Configured : n # m => ~Clash(conf[n], conf[m]) \/ Renaming(n, m)

\* Between commands every rule is one that the file of its name stands for, so
\* a port goes where the files say; exempt are the names a command and a job of
\* systemd handled at once or a command left half done, and clamps, which an edit
\* and a removal leave behind (EditTakesItsClamp).
NoStaleRules ==
  Idle => \A r \in rules :
            \/ r.name \in raced \/ r.kind = "mss"
            \/ conf[r.name] # None /\ r \in RulesOf(r.name, conf[r.name])

\* Whatever failed and was rolled back, and after every restart: an IRAN
\* connection whose interface is up has all its rules when neither a command
\* nor a job is at work.  The watchdog would not notice the loss of a rule.
UpForwards ==
  side = "iran" /\ Idle /\ pass.pc = "idle" =>
    \A n \in Configured \ raced :
      tun[n] # None /\ tun[n].up => RulesOf(n, conf[n]) \subseteq rules

\* An edit that ended is all in the files or not at all: the requested file
\* and no other when it reports success, the previous bytes and no new file
\* when it reports a rollback, verified or not (edit_connection_txn).
EditAllOrNothing ==
  [][cli.kind = "edit" /\ cli'.pc = "idle" =>
       \/ cli'.out = "ok" /\ conf'[cli.new] = cli.want
                          /\ (cli.old # cli.new => conf'[cli.old] = None)
       \/ cli'.out \in {"restored", "lost"} /\ conf'[cli.old] = cli.was
                          /\ (cli.old # cli.new => conf'[cli.new] = None)
       \/ cli'.out = "killed"]_vars

\* A file goes with its connection only: a removal and an addition that failed
\* aside, it goes once the connection has the requested file under its new name
\* and an interface with its address (comment at the end of edit_connection_txn).
KeepsAFile ==
  [][\A n \in Names :
       conf[n] # None /\ conf'[n] = None =>
         \/ cli.kind \in {"add", "remove"}
         \/ /\ n = cli.old /\ conf[cli.new] = cli.want
            /\ Verified(cli.new, cli.want) \/ cli.new \in raced]_vars

\* When commands, failures and restarts end, every connection gets an interface
\* that is up and has the address in its file, and keeps it (watchdog_run).
InPlace(n) == tun[n] # None /\ tun[n].up /\ tun[n].net = conf[n].net
TunnelsComeBack == <>[](\A n \in Configured : InPlace(n))

\* "The old ACCEPT for this node is replaced, never left behind and never
\* duplicated" (cli_node_edit): a FOREIGN server accepts GRE from each of its
\* nodes between commands.
NodesAccepted ==
  side = "foreign" /\ Idle /\ pass.pc = "idle" =>
    \A n \in Configured \ raced : AcceptRule(n, conf[n]) \in rules

\* "removing every rule this connection owns is both sufficient and complete"
\* (peer_rules_remove, of the clamp): an edit that turns the clamp off and
\* reports success has taken it out.
EditTakesItsClamp ==
  [][cli.kind = "edit" /\ cli'.out = "ok" /\ ~cli.want.mss =>
       MssRule(cli.old) \notin rules']_vars
=============================================================================
