-------------------------- MODULE HostManagerProofs --------------------------
(***************************************************************************)
(* Theorems of HostManager, for any names, subnets, endpoints, ports,      *)
(* requests and faults.                                                    *)
(***************************************************************************)
EXTENDS HostManager, TLAPS

CliSet == [pc: CliPcs, kind: Kinds, old: Names \cup {None}, new: Names \cup {None},
           was: Confs \cup {None}, want: Confs \cup {None}, out: Outcomes]
PassSet == [pc: {"idle", "go", "apply", "rule"}, mode: {"watch", "boot"},
            todo: SUBSET Names, cur: Names \cup {None}, rec: Confs \cup {None}]

\* What a running command knows.
Knows(c) ==
  c.pc # "idle" => /\ c.old \in Names /\ c.new \in Names /\ c.want \in Confs
                   /\ c.kind # "add" => c.was \in Confs

PassKnows(w) ==
  /\ w.pc \in {"apply", "rule"} => w.cur \in Names
  /\ w.pc = "rule" => w.rec \in Confs

RollbackPcs == {"down", "back", "rebuild", "rerule", "reverify"}
\* The steps of an edit before it writes the new file.
PendingPcs == {"unrule", "create", "rule", "verify", "file"} \cup RollbackPcs

\* Which steps belong to which command.
Shape(c) ==
  /\ c.pc = "idle" <=> c.kind = "none"
  /\ c.pc \in {"unrule", "verify", "file", "unfile", "untun"} \cup RollbackPcs => c.kind = "edit"
  /\ c.pc \in {"stop", "drop"} => c.kind \in {"add", "remove"}
  /\ c.pc \in {"unfile", "untun"} => c.old # c.new

\* Where the files are in the course of an edit.
Pending(c) ==
  /\ conf[c.old] = c.was
  /\ c.old # c.new => conf[c.new] = None
  /\ CollisionFree(c.want, {c.old, c.new})

Transaction ==
  cli.kind = "edit" =>
    /\ cli.pc \in PendingPcs => Pending(cli)
    /\ cli.pc = "unfile" => conf[cli.new] = cli.want
    /\ cli.pc \in {"untun", "accept"} =>
         conf[cli.new] = cli.want /\ (cli.old # cli.new => conf[cli.old] = None)
    /\ cli.pc \in {"file", "unfile"} =>
         Verified(cli.new, cli.want) \/ cli.new \in raced

HostInv == HostTypeOK /\ Shape(cli) /\ Transaction /\ FilesDisjoint

----------------------------------------------------------------------------
\* What the operators return.

LEMMA RulesTyped ==
  ASSUME NEW n \in Names, NEW c \in Confs
  PROVE  /\ Installed(n, c) \subseteq RuleSet
         /\ NatRules(n, c) \subseteq RuleSet
         /\ AcceptRule(n, c) \in RuleSet
         /\ RulesOf(n, c) \subseteq RuleSet
<1>1. /\ DnatRule(n, c) \in RuleSet /\ SnatRule(n, c) \in RuleSet
      /\ MssRule(n) \in RuleSet /\ AcceptRule(n, c) \in RuleSet
  BY DEF DnatRule, SnatRule, MssRule, AcceptRule, RuleSet, Confs
<1> QED BY <1>1 DEF Installed, NatRules, RulesOf

LEMMA TunsTyped ==
  ASSUME NEW c \in Confs
  PROVE  LiveTun(c) \in Tuns /\ BrokenTuns(c) \subseteq Tuns \cup {None}
  BY DEF LiveTun, BrokenTuns, Tuns, Confs

LEMMA AskableTyped == Askable \subseteq Confs
  BY HostAssumption DEF Askable, Confs

LEMMA GotoIs ==
  ASSUME HostTypeOK, NEW pc \in CliPcs, Goto(pc)
  PROVE  /\ cli' \in CliSet /\ cli'.pc = pc
         /\ cli'.kind = cli.kind /\ cli'.old = cli.old /\ cli'.new = cli.new
         /\ cli'.was = cli.was /\ cli'.want = cli.want
         /\ ~Idle => Knows(cli')
  BY DEF HostTypeOK, Goto, CliSet, Knows, Idle

LEMMA FinishIs ==
  ASSUME NEW out \in Outcomes, Finish(out)
  PROVE  /\ cli' \in CliSet /\ cli'.pc = "idle" /\ cli'.kind = "none"
         /\ cli'.out = out /\ Knows(cli')
  BY DEF Finish, NoCli, CliSet, Knows, CliPcs, Kinds, Outcomes

LEMMA TypesAre ==
  HostTypeOK <=> /\ side \in {"iran", "foreign"}
                 /\ conf \in [Names -> Confs \cup {None}]
                 /\ tun \in [Names -> Tuns \cup {None}]
                 /\ rules \subseteq RuleSet
                 /\ cli \in CliSet /\ Knows(cli)
                 /\ pass \in PassSet /\ PassKnows(pass)
                 /\ raced \subseteq Names /\ torn \subseteq Names \X Names
                 /\ spent \in 0..MaxEvents
  BY DEF HostTypeOK, CliSet, Knows, PassSet, PassKnows, Idle

LEMMA SpendTyped ==
  ASSUME HostTypeOK, spent < MaxEvents, spent' = spent + 1
  PROVE  spent' \in 0..MaxEvents
  BY HostBoundsAssumption DEF HostTypeOK

LEMMA TypesKept ==
  ASSUME side' \in {"iran", "foreign"},
         conf' \in [Names -> Confs \cup {None}],
         tun' \in [Names -> Tuns \cup {None}],
         rules' \subseteq RuleSet,
         cli' \in CliSet, Knows(cli'),
         pass' \in PassSet, PassKnows(pass'),
         raced' \subseteq Names, torn' \subseteq Names \X Names,
         spent' \in 0..MaxEvents
  PROVE  HostTypeOK'
  BY DEF HostTypeOK, CliSet, Knows, PassSet, PassKnows, Idle

----------------------------------------------------------------------------
LEMMA InitHolds == Init => HostInv
<1> SUFFICES ASSUME Init PROVE HostInv
  OBVIOUS
<1>1. /\ cli \in CliSet /\ Knows(cli) /\ Shape(cli)
      /\ cli.pc = "idle" /\ cli.kind = "none"
  BY DEF Init, NoCli, CliSet, Knows, Shape, RollbackPcs, CliPcs, Kinds, Outcomes
<1>2. pass \in PassSet /\ PassKnows(pass)
  BY DEF Init, NoPass, PassSet, PassKnows
<1>3. conf \in [Names -> Confs \cup {None}]
  BY AskableTyped DEF Init
<1>4. \A n \in Configured : n \in Names /\ conf[n] \in Confs
  BY <1>3 DEF Configured
<1>5. tun \in [Names -> Tuns \cup {None}]
  <2>1. \A n \in Names :
          (IF conf[n] = None THEN None ELSE LiveTun(conf[n])) \in Tuns \cup {None}
    BY <1>3, TunsTyped
  <2> QED BY <2>1 DEF Init
<1>6. rules \subseteq RuleSet
  BY <1>4, RulesTyped DEF Init
<1>7. spent \in 0..MaxEvents
  BY HostBoundsAssumption DEF Init
<1>8. HostTypeOK
  BY <1>1, <1>2, <1>3, <1>5, <1>6, <1>7, TypesAre DEF Init
<1>9. Transaction /\ FilesDisjoint
  BY <1>1 DEF Init, Transaction, FilesDisjoint
<1> QED BY <1>1, <1>8, <1>9 DEF HostInv

----------------------------------------------------------------------------
\* Types, action by action.

LEMMA BeginTypes ==
  ASSUME HostTypeOK, NEW pc \in CliPcs \ {"idle"}, NEW kind \in Kinds,
         NEW old \in Names, NEW new \in Names, NEW was \in Confs \cup {None},
         NEW want \in Confs, kind # "add" => was \in Confs,
         Begin(pc, kind, old, new, was, want),
         conf' \in [Names -> Confs \cup {None}], UNCHANGED <<tun, rules>>
  PROVE  HostTypeOK'
<1>1. cli' \in CliSet /\ Knows(cli')
  BY DEF Begin, CliSet, Knows, Outcomes
<1>2. spent' \in 0..MaxEvents
  BY SpendTyped DEF Begin
<1>3. raced' \subseteq Names
  BY DEF Begin, HostTypeOK
<1> QED BY <1>1, <1>2, <1>3, TypesAre, TypesKept DEF Begin

LEMMA RequestTypes ==
  ASSUME HostTypeOK,
         \/ \E n \in Names, c \in Askable : BeginAdd(n, c)
         \/ \E n, m \in Names, c \in Askable : BeginEdit(n, m, c)
         \/ \E n \in Names : BeginRemove(n) \/ BeginApply(n)
  PROVE  HostTypeOK'
<1>1. conf \in [Names -> Confs \cup {None}]
  BY DEF HostTypeOK
<1>2. ASSUME NEW n \in Names, NEW c \in Askable, BeginAdd(n, c)
      PROVE  HostTypeOK'
  <2>1. c \in Confs
    BY AskableTyped
  <2>2. conf' \in [Names -> Confs \cup {None}]
    BY <1>1, <1>2, <2>1 DEF BeginAdd
  <2>3. "create" \in CliPcs \ {"idle"} /\ "add" \in Kinds
    BY DEF CliPcs, Kinds
  <2> QED BY <1>2, <2>1, <2>2, <2>3, BeginTypes DEF BeginAdd
<1>3. ASSUME NEW n \in Names, NEW m \in Names, NEW c \in Askable, BeginEdit(n, m, c)
      PROVE  HostTypeOK'
  <2>1. c \in Confs /\ Snapshot(n) \in Confs
    BY <1>1, <1>3, AskableTyped DEF BeginEdit, Snapshot
  <2>2. /\ (IF side = "iran" THEN "unrule" ELSE "create") \in CliPcs \ {"idle"}
        /\ "edit" \in Kinds
    BY DEF CliPcs, Kinds
  <2>3. conf' \in [Names -> Confs \cup {None}]
    BY <1>1, <1>3 DEF BeginEdit
  <2> QED BY <1>3, <2>1, <2>2, <2>3, BeginTypes DEF BeginEdit
<1>4. ASSUME NEW n \in Names, BeginRemove(n) \/ BeginApply(n)
      PROVE  HostTypeOK'
  <2>1. conf[n] \in Confs /\ conf' \in [Names -> Confs \cup {None}]
    BY <1>1, <1>4 DEF BeginRemove, BeginApply
  <2>2. {"stop", "create"} \subseteq CliPcs \ {"idle"} /\ {"remove", "apply"} \subseteq Kinds
    BY DEF CliPcs, Kinds
  <2>3. CASE BeginRemove(n)
    BY <2>1, <2>2, <2>3, BeginTypes DEF BeginRemove
  <2>4. CASE BeginApply(n)
    BY <2>1, <2>2, <2>4, BeginTypes DEF BeginApply
  <2> QED BY <1>4, <2>3, <2>4
<1> QED BY <1>2, <1>3, <1>4

\* A step of the command that is running.
LEMMA CliKept ==
  ASSUME HostTypeOK, UNCHANGED <<side, pass, raced, torn>>,
         conf' \in [Names -> Confs \cup {None}],
         tun' \in [Names -> Tuns \cup {None}],
         rules' \subseteq RuleSet,
         cli' \in CliSet, Knows(cli'), spent' \in 0..MaxEvents
  PROVE  HostTypeOK'
  BY TypesAre, TypesKept

LEMMA GotoShape ==
  ASSUME HostTypeOK, Shape(cli), ~Idle, NEW pc \in CliPcs \ {"idle"}, Goto(pc),
         pc \in {"unrule", "verify", "file", "unfile", "untun"} \cup RollbackPcs
           => cli.kind = "edit",
         pc \in {"stop", "drop"} => cli.kind \in {"add", "remove"},
         pc \in {"unfile", "untun"} => cli.old # cli.new
  PROVE  cli' \in CliSet /\ Knows(cli') /\ Shape(cli')
<1>1. /\ cli' \in CliSet /\ cli'.pc = pc /\ cli'.kind = cli.kind
      /\ cli'.old = cli.old /\ cli'.new = cli.new /\ Knows(cli')
  BY GotoIs
<1> QED BY <1>1 DEF Shape, Idle

LEMMA FinishShape ==
  ASSUME NEW out \in Outcomes, Finish(out)
  PROVE  cli' \in CliSet /\ Knows(cli') /\ Shape(cli')
<1>1. cli' \in CliSet /\ Knows(cli') /\ cli'.pc = "idle" /\ cli'.kind = "none"
  BY FinishIs
<1> QED BY <1>1 DEF Shape, RollbackPcs

LEMMA CliTypes ==
  ASSUME HostTypeOK, Shape(cli), CliStep
  PROVE  HostTypeOK' /\ Shape(cli')
<1>0. /\ conf \in [Names -> Confs \cup {None}] /\ tun \in [Names -> Tuns \cup {None}]
      /\ rules \subseteq RuleSet /\ spent \in 0..MaxEvents
      /\ side \in {"iran", "foreign"}
  BY TypesAre
<1>1. ~Idle => /\ cli.old \in Names /\ cli.new \in Names /\ cli.want \in Confs
               /\ cli.kind # "add" => cli.was \in Confs
  BY TypesAre DEF Knows, Idle
<1>2. \A pc : At(pc) /\ pc # "idle" => ~Idle
  BY DEF At, Idle
<1>3. CliPcs = {"idle", "create", "rule", "accept", "stop", "drop", "unrule", "verify",
                "file", "unfile", "untun"} \cup RollbackPcs
  BY DEF CliPcs, RollbackPcs
<1>4. \A n \in Names, t \in Tuns \cup {None} :
        Create(n, t) => tun' \in [Names -> Tuns \cup {None}]
  BY <1>0 DEF Create
<1>5. CASE Unrule
  <2>1. ~Idle /\ cli.kind = "edit"
    BY <1>2, <1>5 DEF Unrule, At, Shape
  <2>2. cli' \in CliSet /\ Knows(cli') /\ Shape(cli')
    BY <1>3, <1>5, <2>1, GotoShape DEF Unrule, RollbackPcs
  <2> QED BY <1>0, <1>5, <2>2, CliKept DEF Unrule, At
<1>6. CASE CreateDone
  <2>1. ~Idle
    BY <1>2, <1>6 DEF CreateDone
  <2>2. cli' \in CliSet /\ Knows(cli') /\ Shape(cli')
    BY <1>3, <1>6, <2>1, GotoShape DEF CreateDone, RollbackPcs
  <2>3. tun' \in [Names -> Tuns \cup {None}]
    BY <1>1, <1>4, <1>6, <2>1, TunsTyped DEF CreateDone
  <2> QED BY <1>0, <1>6, <2>2, <2>3, CliKept DEF CreateDone, At
<1>7. CASE CreateFails
  <2>1. ~Idle
    BY <1>2, <1>7 DEF CreateFails
  <2>2. cli' \in CliSet /\ Knows(cli') /\ Shape(cli')
    <3>1. CASE cli.kind = "edit" /\ Goto("down")
      BY <1>3, <2>1, <3>1, GotoShape DEF RollbackPcs
    <3>2. CASE cli.kind = "apply" /\ Finish("failed")
      BY <3>2, FinishShape DEF Outcomes
    <3>3. CASE cli.kind = "add" /\ Goto(IF side = "iran" THEN "stop" ELSE "drop")
      BY <1>3, <2>1, <3>3, GotoShape DEF RollbackPcs
    <3> QED BY <1>7, <3>1, <3>2, <3>3 DEF CreateFails
  <2>3. tun' \in [Names -> Tuns \cup {None}]
    BY <1>1, <1>4, <1>7, <2>1, TunsTyped DEF CreateFails
  <2>4. spent' \in 0..MaxEvents
    BY <1>7, SpendTyped DEF CreateFails
  <2> QED BY <1>0, <1>7, <2>2, <2>3, <2>4, CliKept DEF CreateFails, At
<1>8. CASE Rule
  <2>1. ~Idle
    BY <1>2, <1>8 DEF Rule
  <2>2. cli' \in CliSet /\ Knows(cli') /\ Shape(cli')
    <3>1. CASE cli.kind = "edit"
      BY <1>3, <1>8, <2>1, <3>1, GotoShape DEF Rule, RollbackPcs
    <3>2. CASE cli.kind # "edit"
      BY <1>8, <3>2, FinishShape DEF Rule, Outcomes
    <3> QED BY <3>1, <3>2
  <2>3. rules' \subseteq RuleSet
    BY <1>0, <1>1, <1>8, <2>1, RulesTyped DEF Rule
  <2> QED BY <1>0, <1>8, <2>2, <2>3, CliKept DEF Rule, At
<1>9. CASE Verify
  <2>1. ~Idle /\ cli.kind = "edit"
    BY <1>2, <1>9 DEF Verify, At, Shape
  <2>2. cli' \in CliSet /\ Knows(cli') /\ Shape(cli')
    BY <1>3, <1>9, <2>1, GotoShape DEF Verify, RollbackPcs
  <2> QED BY <1>0, <1>9, <2>2, CliKept DEF Verify, At
<1>10. CASE Commit
  <2>1. ~Idle /\ cli.kind = "edit"
    BY <1>2, <1>10 DEF Commit, At, Shape
  <2>2. cli' \in CliSet /\ Knows(cli') /\ Shape(cli')
    <3>1. CASE cli.old # cli.new /\ Goto("unfile")
      BY <1>3, <2>1, <3>1, GotoShape
    <3>2. CASE Goto("accept")
      BY <1>3, <2>1, <3>2, GotoShape DEF RollbackPcs
    <3>3. CASE Finish("ok")
      BY <3>3, FinishShape DEF Outcomes
    <3> QED BY <1>10, <3>1, <3>2, <3>3 DEF Commit
  <2>3. conf' \in [Names -> Confs \cup {None}]
    BY <1>0, <1>1, <1>10, <2>1 DEF Commit
  <2> QED BY <1>0, <1>10, <2>2, <2>3, CliKept DEF Commit, At
<1>11. CASE Unfile
  <2>1. ~Idle /\ cli.kind = "edit" /\ cli.old # cli.new
    BY <1>2, <1>11 DEF Unfile, At, Shape
  <2>2. cli' \in CliSet /\ Knows(cli') /\ Shape(cli')
    BY <1>3, <1>11, <2>1, GotoShape DEF Unfile
  <2>3. conf' \in [Names -> Confs \cup {None}]
    BY <1>0, <1>11 DEF Unfile
  <2> QED BY <1>0, <1>11, <2>2, <2>3, CliKept DEF Unfile, At
<1>12. CASE Untun
  <2>1. ~Idle /\ cli.kind = "edit"
    BY <1>2, <1>12 DEF Untun, At, Shape
  <2>2. cli' \in CliSet /\ Knows(cli') /\ Shape(cli')
    <3>1. CASE Goto("accept")
      BY <1>3, <2>1, <3>1, GotoShape DEF RollbackPcs
    <3>2. CASE Finish("ok")
      BY <3>2, FinishShape DEF Outcomes
    <3> QED BY <1>12, <3>1, <3>2 DEF Untun
  <2>3. tun' \in [Names -> Tuns \cup {None}]
    BY <1>1, <1>4, <1>12, <2>1 DEF Untun
  <2> QED BY <1>0, <1>12, <2>2, <2>3, CliKept DEF Untun, At
<1>13. CASE Accept
  <2>1. ~Idle
    BY <1>2, <1>13 DEF Accept
  <2>2. cli' \in CliSet /\ Knows(cli') /\ Shape(cli')
    BY <1>13, FinishShape DEF Accept, Outcomes
  <2>3. rules' \subseteq RuleSet
    BY <1>0, <1>1, <1>13, <2>1, RulesTyped DEF Accept
  <2> QED BY <1>0, <1>13, <2>2, <2>3, CliKept DEF Accept, At
<1>14. CASE Stop
  <2>1. ~Idle /\ cli.kind \in {"add", "remove"}
    BY <1>2, <1>14 DEF Stop, At, Shape
  <2>2. cli' \in CliSet /\ Knows(cli') /\ Shape(cli')
    BY <1>3, <1>14, <2>1, GotoShape DEF Stop, RollbackPcs
  <2>3. tun' \in [Names -> Tuns \cup {None}]
    BY <1>1, <1>4, <1>14, <2>1 DEF Stop
  <2>4. rules' \subseteq RuleSet
    BY <1>0, <1>14 DEF Stop
  <2> QED BY <1>0, <1>14, <2>2, <2>3, <2>4, CliKept DEF Stop, At
<1>15. CASE Drop
  <2>1. cli' \in CliSet /\ Knows(cli') /\ Shape(cli')
    BY <1>15, FinishShape DEF Drop, Outcomes
  <2>2. conf' \in [Names -> Confs \cup {None}]
    BY <1>0, <1>15 DEF Drop
  <2> QED BY <1>0, <1>15, <2>1, <2>2, CliKept DEF Drop, At
<1>16. CASE Down
  <2>1. ~Idle /\ cli.kind = "edit"
    BY <1>2, <1>16 DEF Down, At, Shape, RollbackPcs
  <2>2. cli' \in CliSet /\ Knows(cli') /\ Shape(cli')
    BY <1>3, <1>16, <2>1, GotoShape DEF Down, RollbackPcs
  <2>3. tun' \in [Names -> Tuns \cup {None}]
    BY <1>0, <1>16 DEF Down
  <2>4. rules' \subseteq RuleSet
    BY <1>0, <1>16 DEF Down
  <2> QED BY <1>0, <1>16, <2>2, <2>3, <2>4, CliKept DEF Down, At
<1>17. CASE Back
  <2>1. ~Idle /\ cli.kind = "edit"
    BY <1>2, <1>17 DEF Back, At, Shape, RollbackPcs
  <2>2. cli' \in CliSet /\ Knows(cli') /\ Shape(cli')
    BY <1>3, <1>17, <2>1, GotoShape DEF Back, RollbackPcs
  <2>3. conf' \in [Names -> Confs \cup {None}]
    BY <1>0, <1>1, <1>17, <2>1 DEF Back
  <2> QED BY <1>0, <1>17, <2>2, <2>3, CliKept DEF Back, At
<1>18. CASE Rebuild
  <2>1. ~Idle /\ cli.kind = "edit"
    BY <1>2, <1>18 DEF Rebuild, At, Shape, RollbackPcs
  <2>2. cli' \in CliSet /\ Knows(cli') /\ Shape(cli')
    BY <1>3, <1>18, <2>1, GotoShape DEF Rebuild, RollbackPcs
  <2>3. tun' \in [Names -> Tuns \cup {None}]
    BY <1>1, <1>4, <1>18, <2>1, TunsTyped DEF Rebuild
  <2>4. spent' \in 0..MaxEvents
    BY <1>0, <1>18, SpendTyped DEF Rebuild
  <2> QED BY <1>0, <1>18, <2>2, <2>3, <2>4, CliKept DEF Rebuild, At
<1>19. CASE Rerule
  <2>1. ~Idle /\ cli.kind = "edit"
    BY <1>2, <1>19 DEF Rerule, At, Shape, RollbackPcs
  <2>2. cli' \in CliSet /\ Knows(cli') /\ Shape(cli')
    BY <1>19, FinishShape DEF Rerule, Outcomes
  <2>3. rules' \subseteq RuleSet
    BY <1>0, <1>1, <1>19, <2>1, RulesTyped DEF Rerule
  <2> QED BY <1>0, <1>19, <2>2, <2>3, CliKept DEF Rerule, At
<1>20. CASE Reverify
  <2>1. cli' \in CliSet /\ Knows(cli') /\ Shape(cli')
    BY <1>20, FinishShape DEF Reverify, Outcomes
  <2> QED BY <1>0, <1>20, <2>1, CliKept DEF Reverify, At
<1> QED
  BY <1>5, <1>6, <1>7, <1>8, <1>9, <1>10, <1>11, <1>12, <1>13, <1>14, <1>15, <1>16,
     <1>17, <1>18, <1>19, <1>20 DEF CliStep

\* A step of a job of systemd.
LEMMA PassKept ==
  ASSUME HostTypeOK, UNCHANGED <<side, conf, cli, torn>>,
         tun' \in [Names -> Tuns \cup {None}], rules' \subseteq RuleSet,
         pass' \in PassSet, PassKnows(pass'),
         raced' \subseteq Names, spent' \in 0..MaxEvents
  PROVE  HostTypeOK'
  BY TypesAre, TypesKept

LEMMA NextFileIs ==
  ASSUME pass \in PassSet, NextFile
  PROVE  pass' \in PassSet /\ PassKnows(pass')
  BY DEF NextFile, PassSet, PassKnows

LEMMA PassTypes ==
  ASSUME HostTypeOK, PassStep
  PROVE  HostTypeOK'
<1>0. /\ conf \in [Names -> Confs \cup {None}] /\ tun \in [Names -> Tuns \cup {None}]
      /\ rules \subseteq RuleSet /\ spent \in 0..MaxEvents /\ raced \subseteq Names
      /\ pass \in PassSet /\ PassKnows(pass)
  BY TypesAre
<1>1. Configured \subseteq Names /\ \A n \in Configured : conf[n] \in Confs
  BY <1>0 DEF Configured
<1>2. CASE BeginWatch
  <2>1. pass' \in PassSet /\ PassKnows(pass')
    BY <1>1, <1>2 DEF BeginWatch, NoPass, PassSet, PassKnows
  <2> QED BY <1>0, <1>2, <2>1, PassKept DEF BeginWatch
<1>3. CASE ApplyGone
  <2>1. pass' \in PassSet /\ PassKnows(pass')
    BY <1>0, <1>3, NextFileIs DEF ApplyGone
  <2> QED BY <1>0, <1>3, <2>1, PassKept DEF ApplyGone
<1>4. CASE ApplyTun
  <2>1. pass.cur \in Names /\ conf[pass.cur] \in Confs
    BY <1>0, <1>4 DEF ApplyTun, PassKnows
  <2>2. \A t \in Tuns \cup {None} : Create(pass.cur, t) => tun' \in [Names -> Tuns \cup {None}]
    BY <1>0 DEF Create
  <2>3. raced' \subseteq Names
    BY <1>0, <1>4, <2>1 DEF ApplyTun, Overlap
  <2>4. UNCHANGED <<side, conf, rules, cli, torn>>
    BY <1>4 DEF ApplyTun
  <2>5. CASE /\ Create(pass.cur, LiveTun(conf[pass.cur]))
             /\ pass' = IF side = "iran"
                        THEN [pass EXCEPT !.pc = "rule", !.rec = conf[pass.cur]]
                        ELSE [pass EXCEPT !.pc = "go", !.cur = None]
             /\ UNCHANGED spent
    <3>1. tun' \in [Names -> Tuns \cup {None}]
      BY <2>1, <2>2, <2>5, TunsTyped
    <3>2. pass' \in PassSet /\ PassKnows(pass')
      <4>1. CASE side = "iran"
        BY <1>0, <2>1, <2>5, <4>1 DEF PassSet, PassKnows
      <4>2. CASE side # "iran"
        BY <1>0, <2>5, <4>2 DEF PassSet, PassKnows
      <4> QED BY <4>1, <4>2
    <3> QED BY <1>0, <2>3, <2>4, <2>5, <3>1, <3>2, PassKept
  <2>6. CASE /\ spent < MaxEvents
             /\ \E t \in BrokenTuns(conf[pass.cur]) : Create(pass.cur, t)
             /\ NextFile
             /\ spent' = spent + 1
    <3>1. tun' \in [Names -> Tuns \cup {None}]
      BY <2>1, <2>2, <2>6, TunsTyped
    <3>2. pass' \in PassSet /\ PassKnows(pass')
      BY <1>0, <2>6, NextFileIs
    <3>3. spent' \in 0..MaxEvents
      BY <2>6, SpendTyped
    <3> QED BY <1>0, <2>3, <2>4, <3>1, <3>2, <3>3, PassKept
  <2> QED BY <1>4, <2>5, <2>6 DEF ApplyTun
<1>5. CASE ApplyRules
  <2>1. pass.cur \in Names /\ pass.rec \in Confs
    BY <1>0, <1>5 DEF ApplyRules, PassKnows
  <2>2. rules' \subseteq RuleSet
    BY <1>0, <1>5, <2>1, RulesTyped DEF ApplyRules
  <2>3. raced' \subseteq Names
    BY <1>0, <1>5, <2>1 DEF ApplyRules, Overlap
  <2>4. pass' \in PassSet /\ PassKnows(pass')
    BY <1>0, <1>5, NextFileIs DEF ApplyRules
  <2> QED BY <1>0, <1>5, <2>2, <2>3, <2>4, PassKept DEF ApplyRules
<1>6. CASE EndPass
  <2>1. pass' \in PassSet /\ PassKnows(pass')
    BY <1>6 DEF EndPass, NoPass, PassSet, PassKnows
  <2>2. rules' \subseteq RuleSet
    BY <1>0, <1>1, <1>6, RulesTyped DEF EndPass
  <2>3. raced' \subseteq Names
    BY <1>0, <1>6, TypesAre DEF EndPass, Knows, Idle
  <2> QED BY <1>0, <1>6, <2>1, <2>2, <2>3, PassKept DEF EndPass
<1>7. ASSUME NEW n \in Names, Skip(n) \/ NeedsApply(n)
      PROVE  HostTypeOK'
  <2>1. CASE Visit(n, "go", None)
    <3>1. pass' \in PassSet /\ PassKnows(pass')
      BY <1>0, <2>1 DEF Visit, PassSet, PassKnows
    <3> QED BY <1>0, <2>1, <3>1, PassKept DEF Visit
  <2>2. CASE Visit(n, "apply", n)
    <3>1. pass' \in PassSet /\ PassKnows(pass')
      BY <1>0, <2>2 DEF Visit, PassSet, PassKnows
    <3> QED BY <1>0, <2>2, <3>1, PassKept DEF Visit
  <2> QED BY <1>7, <2>1, <2>2 DEF Skip, NeedsApply
<1> QED BY <1>2, <1>3, <1>4, <1>5, <1>6, <1>7 DEF PassStep

LEMMA CutTypes ==
  ASSUME HostTypeOK, Shape(cli), CutShort
  PROVE  /\ cli' \in CliSet /\ Knows(cli') /\ Shape(cli')
         /\ torn' \subseteq Names \X Names /\ spent' \in 0..MaxEvents
<1>1. cli \in CliSet /\ Knows(cli) /\ torn \subseteq Names \X Names
  BY TypesAre
<1>2. cli' \in CliSet /\ Knows(cli') /\ Shape(cli')
  <2>1. CASE Idle
    BY <1>1, <2>1 DEF CutShort
  <2>2. CASE ~Idle
    BY <2>2, FinishShape DEF CutShort, Outcomes
  <2> QED BY <2>1, <2>2
<1>3. torn' \subseteq Names \X Names
  BY <1>1 DEF CutShort, Knows
<1>4. spent' \in 0..MaxEvents
  BY SpendTyped DEF CutShort
<1> QED BY <1>2, <1>3, <1>4

LEMMA CutsTypes ==
  ASSUME HostTypeOK, Shape(cli), Kill \/ Reboot
  PROVE  HostTypeOK' /\ Shape(cli')
<1>0. /\ side \in {"iran", "foreign"} /\ conf \in [Names -> Confs \cup {None}]
      /\ tun \in [Names -> Tuns \cup {None}] /\ rules \subseteq RuleSet
      /\ pass \in PassSet /\ PassKnows(pass) /\ raced \subseteq Names /\ Knows(cli)
  BY TypesAre
<1>1. CutShort
  BY DEF Kill, Reboot
<1>2. /\ cli' \in CliSet /\ Knows(cli') /\ Shape(cli')
      /\ torn' \subseteq Names \X Names /\ spent' \in 0..MaxEvents
  BY <1>1, CutTypes
<1>3. CASE Kill
  <2>1. raced' \subseteq Names
    BY <1>0, <1>3 DEF Kill, Knows, Idle
  <2> QED BY <1>0, <1>2, <1>3, <2>1, TypesKept DEF Kill
<1>4. CASE Reboot
  <2>1. pass' \in PassSet /\ PassKnows(pass')
    BY <1>4 DEF Reboot, NoPass, PassSet, PassKnows, Configured
  <2>2. tun' \in [Names -> Tuns \cup {None}]
    BY <1>4 DEF Reboot
  <2>3. rules' \subseteq RuleSet /\ raced' \subseteq Names
    BY <1>4 DEF Reboot
  <2> QED BY <1>0, <1>2, <1>4, <2>1, <2>2, <2>3, TypesKept DEF Reboot
<1> QED BY <1>3, <1>4

LEMMA RequestShape ==
  ASSUME HostTypeOK,
         \/ \E n \in Names, c \in Askable : BeginAdd(n, c)
         \/ \E n, m \in Names, c \in Askable : BeginEdit(n, m, c)
         \/ \E n \in Names : BeginRemove(n) \/ BeginApply(n)
  PROVE  Shape(cli')
<1>1. ASSUME NEW n \in Names, NEW c \in Askable, BeginAdd(n, c)
      PROVE  Shape(cli')
  BY <1>1 DEF BeginAdd, Begin, Shape, RollbackPcs
<1>2. ASSUME NEW n \in Names, NEW m \in Names, NEW c \in Askable, BeginEdit(n, m, c)
      PROVE  Shape(cli')
  BY <1>2 DEF BeginEdit, Begin, Shape, RollbackPcs
<1>3. ASSUME NEW n \in Names, BeginRemove(n) \/ BeginApply(n)
      PROVE  Shape(cli')
  BY <1>3 DEF BeginRemove, BeginApply, Begin, Shape, RollbackPcs
<1> QED BY <1>1, <1>2, <1>3

----------------------------------------------------------------------------
\* Files and transactions, action by action.

LEMMA ClashBothWays == \A c, d : Clash(c, d) <=> Clash(d, c)
  BY DEF Clash

LEMMA FilesKept ==
  ASSUME FilesDisjoint, conf' = conf, torn \subseteq torn',
         cli.pc = "unfile" =>
           \/ cli'.pc = "unfile" /\ cli'.old = cli.old /\ cli'.new = cli.new
           \/ <<cli.old, cli.new>> \in torn'
  PROVE  FilesDisjoint'
<1> SUFFICES ASSUME NEW n \in Configured', NEW m \in Configured', n # m, (Clash(conf[n], conf[m]))'
             PROVE  Renaming(n, m)'
  BY DEF FilesDisjoint
<1>1. n \in Configured /\ m \in Configured /\ Clash(conf[n], conf[m])
  BY DEF Configured, Clash
<1>2. Renaming(n, m)
  BY <1>1 DEF FilesDisjoint
<1>3. CASE <<n, m>> \in torn \/ <<m, n>> \in torn
  BY <1>3 DEF Renaming
<1>4. CASE cli.pc = "unfile" /\ {n, m} = {cli.old, cli.new}
  <2>1. (n = cli.old /\ m = cli.new) \/ (n = cli.new /\ m = cli.old)
    BY <1>4
  <2> QED BY <1>4, <2>1 DEF Renaming
<1> QED BY <1>2, <1>3, <1>4 DEF Renaming

\* One file is written or removed.
LEMMA FileWritten ==
  ASSUME HostTypeOK, FilesDisjoint, NEW n \in Names, NEW c,
         conf' = [conf EXCEPT ![n] = c], torn \subseteq torn', cli.pc # "unfile",
         \A m \in Configured \ {n} : c # None => ~Clash(c, conf[m]) \/ Renaming(n, m)'
  PROVE  FilesDisjoint'
<1>0. conf \in [Names -> Confs \cup {None}]
  BY DEF HostTypeOK
<1>1. conf'[n] = c /\ \A m \in Names \ {n} : conf'[m] = conf[m]
  BY <1>0
<1>2. \A m \in Configured' : m \in Names /\ (m # n => m \in Configured) /\ conf'[m] # None
  BY <1>1 DEF Configured
<1>3. \A m, k : Renaming(m, k)' <=> Renaming(k, m)'
  <2>1. \A m, k : {m, k} = {k, m}
    OBVIOUS
  <2> QED BY <2>1 DEF Renaming
<1> SUFFICES ASSUME NEW m \in Configured', NEW k \in Configured', m # k
             PROVE  ~Clash(conf'[m], conf'[k]) \/ Renaming(m, k)'
  BY DEF FilesDisjoint, Clash
<1>4. CASE m # n /\ k # n
  <2>1. m \in Configured /\ k \in Configured /\ conf'[m] = conf[m] /\ conf'[k] = conf[k]
    BY <1>1, <1>2, <1>4
  <2>2. ~Clash(conf[m], conf[k]) \/ Renaming(m, k)
    BY <2>1 DEF FilesDisjoint
  <2>3. Renaming(m, k) => Renaming(m, k)'
    BY DEF Renaming
  <2> QED BY <2>1, <2>2, <2>3
<1>5. CASE m = n /\ k # n
  BY <1>1, <1>2, <1>5
<1>6. CASE k = n /\ m # n
  BY <1>1, <1>2, <1>3, <1>6, ClashBothWays
<1> QED BY <1>4, <1>5, <1>6

LEMMA RequestFiles ==
  ASSUME HostInv,
         \/ \E n \in Names, c \in Askable : BeginAdd(n, c)
         \/ \E n, m \in Names, c \in Askable : BeginEdit(n, m, c)
         \/ \E n \in Names : BeginRemove(n) \/ BeginApply(n)
  PROVE  Transaction' /\ FilesDisjoint'
<1>0. HostTypeOK /\ FilesDisjoint /\ conf \in [Names -> Confs \cup {None}]
  BY DEF HostInv, HostTypeOK
<1>1. ASSUME NEW n \in Names, NEW c \in Askable, BeginAdd(n, c)
      PROVE  Transaction' /\ FilesDisjoint'
  <2>1. cli.pc = "idle" /\ cli'.kind = "add" /\ torn' = torn /\ conf' = [conf EXCEPT ![n] = c]
    BY <1>1 DEF BeginAdd, Begin, Idle
  <2>2. \A m \in Configured \ {n} : ~Clash(c, conf[m])
    BY <1>1 DEF BeginAdd, CollisionFree
  <2>3. FilesDisjoint'
    BY <1>0, <2>1, <2>2, FileWritten
  <2> QED BY <2>1, <2>3 DEF Transaction
<1>2. ASSUME NEW n \in Names, NEW m \in Names, NEW c \in Askable, BeginEdit(n, m, c)
      PROVE  Transaction' /\ FilesDisjoint'
  <2>1. /\ cli.pc = "idle" /\ torn' = torn /\ conf' = conf
        /\ cli'.pc \in {"unrule", "create"} /\ cli'.old = n /\ cli'.new = m
        /\ cli'.was = conf[n] /\ cli'.want = c
    BY <1>2 DEF BeginEdit, Begin, Idle, Snapshot
  <2>2. FilesDisjoint'
    BY <1>0, <2>1, FilesKept
  <2>3. Pending(cli)'
    BY <1>2, <2>1 DEF BeginEdit, Pending, CollisionFree, Configured
  <2> QED BY <2>1, <2>2, <2>3 DEF Transaction
<1>3. ASSUME NEW n \in Names, BeginRemove(n) \/ BeginApply(n)
      PROVE  Transaction' /\ FilesDisjoint'
  <2>1. /\ cli.pc = "idle" /\ torn' = torn /\ conf' = conf
        /\ cli'.kind \in {"remove", "apply"}
    BY <1>3 DEF BeginRemove, BeginApply, Begin, Idle
  <2>2. FilesDisjoint'
    BY <1>0, <2>1, FilesKept
  <2> QED BY <2>1, <2>2 DEF Transaction
<1> QED BY <1>1, <1>2, <1>3

\* A step before the commit that leaves the files alone.
LEMMA PendingKept ==
  ASSUME HostInv, ~Idle, cli.pc \in PendingPcs \cup {"accept", "stop", "drop"},
         conf' = conf, torn' = torn, NEW pc \in CliPcs, Goto(pc),
         cli.kind = "edit" => cli.pc \in PendingPcs /\ pc \in PendingPcs,
         pc = "file" => (Verified(cli.new, cli.want))'
  PROVE  Transaction' /\ FilesDisjoint'
<1>1. /\ cli'.pc = pc /\ cli'.kind = cli.kind /\ cli'.old = cli.old
      /\ cli'.new = cli.new /\ cli'.was = cli.was /\ cli'.want = cli.want
  BY GotoIs DEF HostInv
<1>2. cli.pc # "unfile"
  BY DEF PendingPcs, RollbackPcs
<1>3. FilesDisjoint'
  BY <1>2, FilesKept DEF HostInv
<1>4. CASE cli.kind = "edit"
  <2>1. Pending(cli)
    BY <1>4 DEF HostInv, Transaction
  <2>2. Pending(cli)'
    BY <1>1, <2>1 DEF Pending, CollisionFree, Configured
  <2>3. pc = "file" => Verified(cli.new, cli.want)'
    BY <1>1 DEF Verified
  <2> QED BY <1>1, <1>3, <1>4, <2>2, <2>3 DEF Transaction, PendingPcs, RollbackPcs
<1>5. CASE cli.kind # "edit"
  BY <1>1, <1>3, <1>5 DEF Transaction
<1> QED BY <1>4, <1>5

\* A step that ends the command.
LEMMA FinishKept ==
  ASSUME FilesDisjoint', NEW out \in Outcomes, Finish(out)
  PROVE  Transaction' /\ FilesDisjoint'
<1>1. cli'.kind = "none"
  BY FinishIs
<1> QED BY <1>1 DEF Transaction

LEMMA CliFiles ==
  ASSUME HostInv, CliStep
  PROVE  Transaction' /\ FilesDisjoint'
<1>0. /\ HostTypeOK /\ Shape(cli) /\ Transaction /\ FilesDisjoint
      /\ conf \in [Names -> Confs \cup {None}] /\ None \notin Confs
  BY HostAssumption DEF HostInv, HostTypeOK
<1>1. ~Idle => /\ cli.old \in Names /\ cli.new \in Names /\ cli.want \in Confs
               /\ cli.kind # "add" => cli.was \in Confs
  BY <1>0, TypesAre DEF Knows, Idle
<1>2. \A pc : At(pc) => cli.pc = pc /\ torn' = torn
  BY DEF At
<1>3. CliPcs = {"idle", "accept", "stop", "drop", "unfile", "untun"} \cup PendingPcs
  BY DEF CliPcs, PendingPcs, RollbackPcs
<1>4. CASE Unrule
  <2>1. cli.pc = "unrule" /\ torn' = torn /\ conf' = conf
    BY <1>2, <1>4 DEF Unrule
  <2>2. PICK pc \in {"create", "rule"} : Goto(pc)
    BY <1>4 DEF Unrule
  <2> QED BY <1>3, <2>1, <2>2, PendingKept DEF Idle, PendingPcs
<1>5. CASE CreateDone
  <2>1. cli.pc = "create" /\ torn' = torn /\ conf' = conf
    BY <1>2, <1>5 DEF CreateDone
  <2>2. PICK pc \in {"rule", "verify", "accept"} :
          Goto(pc) /\ (cli.kind = "edit" => pc \in {"rule", "verify"})
    BY <1>5 DEF CreateDone
  <2> QED BY <1>3, <2>1, <2>2, PendingKept DEF Idle, PendingPcs
<1>6. CASE CreateFails
  <2>1. cli.pc = "create" /\ torn' = torn /\ conf' = conf
    BY <1>2, <1>6 DEF CreateFails
  <2>2. FilesDisjoint'
    BY <1>0, <2>1, FilesKept
  <2>3. CASE cli.kind = "edit" /\ Goto("down")
    BY <1>3, <2>1, <2>3, PendingKept DEF Idle, PendingPcs, RollbackPcs
  <2>4. CASE Finish("failed")
    BY <2>2, <2>4, FinishKept DEF Outcomes
  <2>5. CASE cli.kind = "add" /\ Goto(IF side = "iran" THEN "stop" ELSE "drop")
    <3>1. PICK pc \in {"stop", "drop"} : Goto(pc)
      BY <2>5
    <3> QED BY <1>3, <2>1, <2>5, <3>1, PendingKept DEF Idle, PendingPcs
  <2> QED BY <1>6, <2>3, <2>4, <2>5 DEF CreateFails
<1>7. CASE Rule
  <2>1. cli.pc = "rule" /\ torn' = torn /\ conf' = conf
    BY <1>2, <1>7 DEF Rule
  <2>2. FilesDisjoint'
    BY <1>0, <2>1, FilesKept
  <2>3. CASE cli.kind = "edit"
    <3>1. Goto("verify")
      BY <1>7, <2>3 DEF Rule
    <3> QED BY <1>3, <2>1, <2>3, <3>1, PendingKept DEF Idle, PendingPcs
  <2>4. CASE cli.kind # "edit"
    BY <1>7, <2>2, <2>4, FinishKept DEF Rule, Outcomes
  <2> QED BY <2>3, <2>4
<1>8. CASE Verify
  <2>1. cli.pc = "verify" /\ torn' = torn /\ conf' = conf /\ tun' = tun
    BY <1>2, <1>8 DEF Verify
  <2>2. PICK pc \in {"file", "down"} : Goto(pc) /\ (pc = "file" => Verified(cli.new, cli.want))
    BY <1>8 DEF Verify
  <2>3. cli'.new = cli.new /\ cli'.want = cli.want
    BY <1>0, <1>3, <2>2, GotoIs DEF PendingPcs, RollbackPcs
  <2>4. pc = "file" => (Verified(cli.new, cli.want))'
    BY <2>1, <2>2, <2>3 DEF Verified
  <2> QED BY <1>3, <2>1, <2>2, <2>4, PendingKept DEF Idle, PendingPcs, RollbackPcs
<1>9. CASE Commit
  <2>1. /\ cli.pc = "file" /\ cli.kind = "edit" /\ torn' = torn /\ ~Idle
        /\ conf' = [conf EXCEPT ![cli.new] = cli.want] /\ tun' = tun /\ raced' = raced
    BY <1>0, <1>2, <1>9 DEF Commit, Shape, Idle, At
  <2>2. Pending(cli) /\ (Verified(cli.new, cli.want) \/ cli.new \in raced)
    BY <1>0, <2>1 DEF Transaction, PendingPcs
  <2>3. CASE cli.old # cli.new /\ Goto("unfile")
    <3>1. /\ cli'.pc = "unfile" /\ cli'.old = cli.old /\ cli'.new = cli.new
          /\ cli'.want = cli.want /\ cli'.kind = "edit"
      BY <1>0, <1>3, <2>1, <2>3, GotoIs
    <3>2. \A m \in Configured \ {cli.new} :
            ~Clash(cli.want, conf[m]) \/ {cli.new, m} = {cli'.old, cli'.new}
      <4>1. \A m \in Configured \ {cli.new, cli.old} : ~Clash(cli.want, conf[m])
        BY <2>2 DEF Pending, CollisionFree
      <4> QED BY <3>1, <4>1
    <3>3. FilesDisjoint'
      <4>1. PICK n \in Names, c \in Confs : n = cli.new /\ c = cli.want
        BY <1>1, <2>1
      <4>2. \A m \in Configured \ {n} : ~Clash(c, conf[m]) \/ Renaming(n, m)'
        BY <3>1, <3>2, <4>1 DEF Renaming
      <4>3. conf' = [conf EXCEPT ![n] = c] /\ torn \subseteq torn' /\ cli.pc # "unfile"
        BY <2>1, <4>1
      <4> QED BY <1>0, <4>2, <4>3, FileWritten
    <3>4. conf'[cli'.new] = cli'.want
      BY <1>0, <1>1, <2>1, <3>1
    <3>5. (Verified(cli.new, cli.want))' \/ cli'.new \in raced'
      BY <2>1, <2>2, <3>1 DEF Verified
    <3> QED BY <3>1, <3>3, <3>4, <3>5 DEF Transaction, PendingPcs, RollbackPcs
  <2>4. ASSUME cli.old = cli.new PROVE FilesDisjoint'
    <3>1. \A m \in Configured \ {cli.new} : ~Clash(cli.want, conf[m])
      BY <2>2, <2>4 DEF Pending, CollisionFree
    <3> QED BY <1>0, <1>1, <2>1, <3>1, FileWritten
  <2>5. CASE cli.old = cli.new /\ Goto("accept")
    <3>1. /\ cli'.pc = "accept" /\ cli'.old = cli.old /\ cli'.new = cli.new
          /\ cli'.want = cli.want
      BY <1>0, <1>3, <2>5, GotoIs
    <3>2. conf'[cli'.new] = cli'.want
      BY <1>0, <1>1, <2>1, <3>1
    <3> QED BY <2>4, <2>5, <3>1, <3>2 DEF Transaction, PendingPcs, RollbackPcs
  <2>6. CASE cli.old = cli.new /\ Finish("ok")
    BY <2>4, <2>6, FinishKept DEF Outcomes
  <2> QED BY <1>9, <2>3, <2>5, <2>6 DEF Commit
<1>10. CASE Unfile
  <2>1. /\ cli.pc = "unfile" /\ cli.kind = "edit" /\ cli.old # cli.new /\ ~Idle
        /\ torn' = torn /\ conf' = [conf EXCEPT ![cli.old] = None]
    BY <1>0, <1>2, <1>10 DEF Unfile, Shape, Idle
  <2>2. /\ cli'.pc = "untun" /\ cli'.old = cli.old /\ cli'.new = cli.new
        /\ cli'.want = cli.want
    BY <1>0, <1>3, <1>10, GotoIs DEF Unfile
  <2>3. conf'[cli.new] = cli.want /\ conf'[cli.old] = None
    BY <1>0, <1>1, <2>1 DEF Transaction
  <2>4. FilesDisjoint'
    <3> SUFFICES ASSUME NEW n \in Configured', NEW m \in Configured', n # m
                 PROVE  ~Clash(conf'[n], conf'[m]) \/ Renaming(n, m)'
      BY DEF FilesDisjoint, Clash
    <3>1. /\ n \in Configured /\ m \in Configured /\ n # cli.old /\ m # cli.old
          /\ conf'[n] = conf[n] /\ conf'[m] = conf[m]
      BY <1>0, <1>1, <2>1, <2>3 DEF Configured
    <3>2. ~Clash(conf[n], conf[m]) \/ Renaming(n, m)
      BY <3>1 DEF HostInv, FilesDisjoint
    <3>3. Renaming(n, m) => Renaming(n, m)'
      BY <2>1, <3>1 DEF Renaming
    <3> QED BY <3>1, <3>2, <3>3
  <2> QED BY <2>2, <2>3, <2>4 DEF Transaction, PendingPcs, RollbackPcs
<1>11. CASE Untun
  <2>1. /\ cli.pc = "untun" /\ cli.kind = "edit" /\ torn' = torn /\ conf' = conf
    BY <1>0, <1>2, <1>11 DEF Untun, Shape
  <2>2. FilesDisjoint'
    BY <1>0, <2>1, FilesKept
  <2>3. CASE Goto("accept")
    <3>1. /\ cli'.pc = "accept" /\ cli'.old = cli.old /\ cli'.new = cli.new
          /\ cli'.want = cli.want
      BY <1>0, <1>3, <2>3, GotoIs
    <3> QED BY <1>0, <2>1, <2>2, <3>1 DEF Transaction, PendingPcs, RollbackPcs
  <2>4. CASE Finish("ok")
    BY <2>2, <2>4, FinishKept DEF Outcomes
  <2> QED BY <1>11, <2>3, <2>4 DEF Untun
<1>12. CASE Stop
  <2>1. cli.pc = "stop" /\ torn' = torn /\ conf' = conf /\ cli.kind # "edit" /\ Goto("drop")
    BY <1>0, <1>2, <1>12 DEF Stop, Shape
  <2> QED BY <1>3, <2>1, PendingKept DEF Idle
<1>13. CASE Drop
  <2>1. /\ cli.pc = "drop" /\ torn' = torn /\ ~Idle
        /\ conf' = [conf EXCEPT ![cli.new] = None]
    BY <1>2, <1>13 DEF Drop, Idle
  <2>2. FilesDisjoint'
    BY <1>0, <1>1, <2>1, FileWritten
  <2> QED BY <1>13, <2>2, FinishKept DEF Drop, Outcomes
<1>14. CASE Back
  <2>1. /\ cli.pc = "back" /\ cli.kind = "edit" /\ torn' = torn /\ ~Idle
        /\ conf' = [conf EXCEPT ![cli.old] = cli.was]
    BY <1>0, <1>2, <1>14 DEF Back, Shape, RollbackPcs, Idle
  <2>2. conf' = conf
    BY <1>0, <1>1, <2>1 DEF Transaction, Pending, PendingPcs, RollbackPcs
  <2> QED
    BY <1>3, <1>14, <2>1, <2>2, PendingKept DEF Back, PendingPcs, RollbackPcs
<1>15. CASE Down
  <2>1. /\ cli.pc = "down" /\ torn' = torn /\ conf' = conf /\ Goto("back")
    BY <1>2, <1>15 DEF Down
  <2> QED BY <1>3, <2>1, PendingKept DEF Idle, PendingPcs, RollbackPcs
<1>16. CASE Rebuild
  <2>1. /\ cli.pc = "rebuild" /\ torn' = torn /\ conf' = conf
    BY <1>2, <1>16 DEF Rebuild
  <2>2. PICK pc \in {"rerule", "reverify"} : Goto(pc)
    BY <1>16 DEF Rebuild
  <2> QED BY <1>3, <2>1, <2>2, PendingKept DEF Idle, PendingPcs, RollbackPcs
<1>17. CASE Accept \/ Rerule \/ Reverify
  <2>1. /\ cli.pc # "unfile" /\ torn' = torn /\ conf' = conf
    BY <1>2, <1>17 DEF Accept, Rerule, Reverify
  <2>2. FilesDisjoint'
    BY <1>0, <2>1, FilesKept
  <2>3. \E out \in Outcomes : Finish(out)
    BY <1>17 DEF Accept, Rerule, Reverify, Outcomes
  <2> QED BY <2>2, <2>3, FinishKept
<1> QED
  BY <1>4, <1>5, <1>6, <1>7, <1>8, <1>9, <1>10, <1>11, <1>12, <1>13, <1>14, <1>15,
     <1>16, <1>17 DEF CliStep

\* A job of systemd writes no file; an interface it touches is marked as raced
\* when a command is busy with it.
LEMMA PassFiles ==
  ASSUME HostInv, PassStep
  PROVE  Transaction' /\ FilesDisjoint'
<1>1. conf' = conf /\ cli' = cli /\ torn' = torn
  BY DEF PassStep, BeginWatch, ApplyGone, ApplyTun, ApplyRules, EndPass, Skip, NeedsApply, Visit
<1>2. FilesDisjoint'
  BY <1>1, FilesKept DEF HostInv
<1>3. raced \subseteq raced'
  BY DEF PassStep, BeginWatch, ApplyGone, ApplyTun, ApplyRules, EndPass, Skip, NeedsApply,
         Visit, Overlap
<1>4. \A n \in Names : Busy(n) => tun'[n] = tun[n] \/ n \in raced'
  <2>1. CASE ApplyTun
    <3>1. PICK t : Create(pass.cur, t)
      BY <2>1 DEF ApplyTun
    <3>2. \A n \in Names \ {pass.cur} : tun'[n] = tun[n]
      BY <3>1 DEF Create, HostInv, HostTypeOK
    <3>3. Busy(pass.cur) => pass.cur \in raced'
      BY <2>1 DEF ApplyTun, Overlap
    <3> QED BY <3>2, <3>3
  <2>2. CASE ~ApplyTun
    BY <2>2 DEF PassStep, BeginWatch, ApplyGone, ApplyRules, EndPass, Skip, NeedsApply, Visit
  <2> QED BY <2>1, <2>2
<1>5. CASE cli.kind = "edit"
  <2>1. ~Idle /\ Busy(cli.new) /\ cli.new \in Names
    BY <1>5, TypesAre DEF HostInv, Shape, Idle, Busy, Knows
  <2>2. Pending(cli) => Pending(cli)'
    BY <1>1 DEF Pending, CollisionFree, Configured
  <2>3. Verified(cli.new, cli.want) \/ cli.new \in raced =>
          Verified(cli.new, cli.want)' \/ cli.new \in raced'
    BY <1>1, <1>3, <1>4, <2>1 DEF Verified
  <2> QED BY <1>1, <1>2, <2>2, <2>3 DEF HostInv, Transaction
<1>6. CASE cli.kind # "edit"
  BY <1>1, <1>2, <1>6 DEF Transaction
<1> QED BY <1>5, <1>6

LEMMA CutFiles ==
  ASSUME HostInv, Kill \/ Reboot
  PROVE  Transaction' /\ FilesDisjoint'
<1>1. CutShort /\ conf' = conf
  BY DEF Kill, Reboot
<1>2. /\ torn \subseteq torn'
      /\ cli.pc = "unfile" => <<cli.old, cli.new>> \in torn'
  BY <1>1 DEF CutShort
<1>3. FilesDisjoint'
  BY <1>1, <1>2, FilesKept DEF HostInv
<1>4. cli'.kind = "none"
  <2>1. CASE Idle
    BY <1>1, <2>1 DEF CutShort, HostInv, Shape, Idle
  <2>2. CASE ~Idle
    BY <1>1, <2>2, FinishIs DEF CutShort, Outcomes
  <2> QED BY <2>1, <2>2
<1> QED BY <1>3, <1>4 DEF Transaction

LEMMA StutterKeeps == HostInv /\ UNCHANGED vars => HostInv'
<1> SUFFICES ASSUME HostInv, UNCHANGED vars PROVE HostInv'
  OBVIOUS
<1>1. HostTypeOK' /\ Shape(cli')
  BY TypesAre, TypesKept DEF HostInv, vars
<1>2. FilesDisjoint'
  BY FilesKept DEF HostInv, vars
<1>3. Transaction'
  BY DEF HostInv, vars, Transaction, Pending, CollisionFree, Configured, Verified
<1> QED BY <1>1, <1>2, <1>3 DEF HostInv

LEMMA NextKeeps == HostInv /\ [Next]_vars => HostInv'
<1> SUFFICES ASSUME HostInv, Next PROVE HostInv'
  BY StutterKeeps
<1>1. HostTypeOK /\ Shape(cli)
  BY DEF HostInv
<1>2. CASE \/ \E n \in Names, c \in Askable : BeginAdd(n, c)
           \/ \E n, m \in Names, c \in Askable : BeginEdit(n, m, c)
           \/ \E n \in Names : BeginRemove(n) \/ BeginApply(n)
  BY <1>1, <1>2, RequestTypes, RequestShape, RequestFiles DEF HostInv
<1>3. CASE CliStep
  BY <1>1, <1>3, CliTypes, CliFiles DEF HostInv
<1>4. CASE PassStep
  <2>1. cli' = cli
    BY <1>4 DEF PassStep, BeginWatch, ApplyGone, ApplyTun, ApplyRules, EndPass, Skip,
                NeedsApply, Visit
  <2> QED BY <1>1, <1>4, <2>1, PassTypes, PassFiles DEF HostInv
<1>5. CASE Kill \/ Reboot
  BY <1>1, <1>5, CutsTypes, CutFiles DEF HostInv
<1> QED BY <1>2, <1>3, <1>4, <1>5 DEF Next

LEMMA Invariance == Spec => []HostInv
  BY InitHolds, NextKeeps, PTL DEF Spec

----------------------------------------------------------------------------
\* Files, interfaces, rules, command and job keep their types, whatever fails,
\* is killed or restarts.
THEOREM HostTypes == Spec => []HostTypeOK
  BY Invariance, PTL DEF HostInv

\* No two files claim one subnet or port, but the two of a rename.
THEOREM FilesAreDisjoint == Spec => []FilesDisjoint
  BY Invariance, PTL DEF HostInv

\* An edit that ended is all in the files or not at all.
THEOREM EditsAreAllOrNothing == Spec => EditAllOrNothing
<1>1. ASSUME HostInv, [Next]_vars
      PROVE  [cli.kind = "edit" /\ cli'.pc = "idle" =>
                \/ cli'.out = "ok" /\ conf'[cli.new] = cli.want
                                   /\ (cli.old # cli.new => conf'[cli.old] = None)
                \/ cli'.out \in {"restored", "lost"} /\ conf'[cli.old] = cli.was
                                   /\ (cli.old # cli.new => conf'[cli.new] = None)
                \/ cli'.out = "killed"]_vars
  <2> SUFFICES ASSUME Next, cli.kind = "edit", cli'.pc = "idle"
               PROVE  \/ cli'.out = "ok" /\ conf'[cli.new] = cli.want
                                         /\ (cli.old # cli.new => conf'[cli.old] = None)
                      \/ cli'.out \in {"restored", "lost"} /\ conf'[cli.old] = cli.was
                                         /\ (cli.old # cli.new => conf'[cli.new] = None)
                      \/ cli'.out = "killed"
    BY <1>1
  <2>0. /\ ~Idle /\ cli.pc # "idle" /\ Shape(cli) /\ Transaction /\ HostTypeOK
        /\ conf \in [Names -> Confs \cup {None}] /\ cli.new \in Names
    BY <1>1, TypesAre DEF HostInv, Shape, Idle, Knows
  <2>1. \A pc \in CliPcs : Goto(pc) => cli'.pc = pc
    BY <2>0, GotoIs
  <2>2. \A out \in Outcomes : Finish(out) => cli'.out = out
    BY FinishIs
  <2>3. cli' # cli
    BY <2>0
  <2>4. CASE CliStep
    <3>1. CASE Commit
      <4>1. cli.old = cli.new /\ Finish("ok") /\ conf' = [conf EXCEPT ![cli.new] = cli.want]
        BY <2>1, <3>1 DEF Commit, CliPcs
      <4> QED BY <2>0, <2>2, <4>1 DEF Outcomes
    <3>2. CASE Untun
      <4>1. cli.pc = "untun" /\ Finish("ok") /\ conf' = conf
        BY <2>1, <3>2 DEF Untun, At, CliPcs
      <4> QED BY <2>0, <2>2, <4>1 DEF Transaction, Outcomes
    <3>3. CASE Accept
      <4>1. cli.pc = "accept" /\ Finish("ok") /\ conf' = conf
        BY <3>3 DEF Accept, At
      <4> QED BY <2>0, <2>2, <4>1 DEF Transaction, Outcomes
    <3>4. CASE Rerule \/ Reverify
      <4>1. cli.pc \in PendingPcs /\ conf' = conf
        BY <3>4 DEF Rerule, Reverify, At, PendingPcs, RollbackPcs
      <4>2. cli'.out \in {"restored", "lost"}
        BY <2>2, <3>4 DEF Rerule, Reverify, Outcomes
      <4> QED BY <2>0, <4>1, <4>2 DEF Transaction, Pending
    <3>5. CASE \/ Unrule \/ CreateDone \/ CreateFails \/ Rule \/ Verify \/ Unfile
               \/ Stop \/ Down \/ Back \/ Rebuild
      <4>1. \E pc \in CliPcs \ {"idle"} : Goto(pc)
        BY <3>5 DEF Unrule, CreateDone, CreateFails, Rule, Verify, Unfile, Stop, Down, Back,
                    Rebuild, CliPcs
      <4> QED BY <2>1, <4>1
    <3>6. CASE Drop
      BY <2>0, <3>6 DEF Drop, At, Shape
    <3> QED BY <2>4, <3>1, <3>2, <3>3, <3>4, <3>5, <3>6 DEF CliStep
  <2>5. CASE PassStep
    BY <2>3, <2>5 DEF PassStep, BeginWatch, ApplyGone, ApplyTun, ApplyRules, EndPass, Skip,
                      NeedsApply, Visit
  <2>6. CASE Kill \/ Reboot
    BY <2>0, <2>2, <2>6 DEF Kill, Reboot, CutShort, Outcomes
  <2>7. CASE \/ \E n \in Names, c \in Askable : BeginAdd(n, c)
             \/ \E n, m \in Names, c \in Askable : BeginEdit(n, m, c)
             \/ \E n \in Names : BeginRemove(n) \/ BeginApply(n)
    BY <2>0, <2>7 DEF BeginAdd, BeginEdit, BeginRemove, BeginApply, Begin
  <2> QED BY <2>4, <2>5, <2>6, <2>7 DEF Next
<1> QED BY <1>1, Invariance, PTL DEF Spec, EditAllOrNothing

\* A file goes with its connection only.
THEOREM FilesAreKept == Spec => KeepsAFile
<1>1. ASSUME HostInv, [Next]_vars
      PROVE  [\A n \in Names :
                conf[n] # None /\ conf'[n] = None =>
                  \/ cli.kind \in {"add", "remove"}
                  \/ /\ n = cli.old /\ conf[cli.new] = cli.want
                     /\ Verified(cli.new, cli.want) \/ cli.new \in raced]_vars
  <2> SUFFICES ASSUME Next, NEW n \in Names, conf[n] # None, conf'[n] = None
               PROVE  \/ cli.kind \in {"add", "remove"}
                      \/ /\ n = cli.old /\ conf[cli.new] = cli.want
                         /\ Verified(cli.new, cli.want) \/ cli.new \in raced
    BY <1>1
  <2>0. /\ Shape(cli) /\ Transaction /\ None \notin Confs
        /\ conf \in [Names -> Confs \cup {None}] /\ conf' # conf
        /\ ~Idle => /\ cli.new \in Names /\ cli.want \in Confs
                    /\ cli.kind # "add" => cli.was \in Confs
    BY <1>1, HostAssumption, TypesAre DEF HostInv, Knows, Idle
  <2>1. CASE CliStep
    <3>1. CASE Commit
      BY <2>0, <3>1 DEF Commit, At, Idle
    <3>2. CASE Unfile
      BY <2>0, <3>2 DEF Unfile, At, Shape, Transaction
    <3>3. CASE Drop
      BY <2>0, <3>3 DEF Drop, At, Shape
    <3>4. CASE Back
      BY <2>0, <3>4 DEF Back, At, Shape, RollbackPcs, Idle
    <3> QED
      BY <2>0, <2>1, <3>1, <3>2, <3>3, <3>4
      DEF CliStep, Unrule, CreateDone, CreateFails, Rule, Verify, Untun, Accept, Stop, Down,
          Rebuild, Rerule, Reverify
  <2>2. CASE PassStep
    BY <2>0, <2>2 DEF PassStep, BeginWatch, ApplyGone, ApplyTun, ApplyRules, EndPass, Skip,
                      NeedsApply, Visit
  <2>3. CASE Kill \/ Reboot
    BY <2>0, <2>3 DEF Kill, Reboot
  <2>4. ASSUME NEW m \in Names, NEW c \in Askable, BeginAdd(m, c)
        PROVE  FALSE
    <3>1. c # None
      BY <2>0, AskableTyped
    <3> QED BY <2>0, <2>4, <3>1 DEF BeginAdd
  <2>5. CASE \/ \E k, m \in Names, c \in Askable : BeginEdit(k, m, c)
             \/ \E m \in Names : BeginRemove(m) \/ BeginApply(m)
    BY <2>0, <2>5 DEF BeginEdit, BeginRemove, BeginApply
  <2> QED BY <2>1, <2>2, <2>3, <2>4, <2>5 DEF Next
<1> QED BY <1>1, Invariance, PTL DEF Spec, KeepsAFile

----------------------------------------------------------------------------
\* The rules and the interfaces.

\* The rules of a name, but its clamps.
Own(n) == {r \in rules : r.name = n /\ r.kind # "mss"}

FileRules(n) == IF conf[n] = None THEN {} ELSE RulesOf(n, conf[n])

\* The rules that a name may have at a step of an edit.
EditRules(n, pc) ==
  IF side = "foreign" THEN (IF n = cli.old THEN {AcceptRule(n, cli.was)} ELSE {})
  ELSE IF pc = "unrule" THEN (IF n = cli.old THEN Installed(n, cli.was) ELSE {})
  ELSE IF pc \in {"verify", "file", "unfile", "untun", "down"}
  THEN (IF n = cli.new THEN Installed(n, cli.want) ELSE {})
  ELSE {}

Expected(n) ==
  IF ~Busy(n) THEN FileRules(n)
  ELSE IF cli.kind = "edit" THEN EditRules(n, cli.pc)
  ELSE IF cli.kind = "apply" \/ (cli.pc = "stop" /\ cli.kind = "remove") THEN FileRules(n)
  ELSE {}

OwnOk(n) == n \in raced \/ Own(n) \subseteq Expected(n)

AtRule(n) == pass.pc = "rule" /\ pass.cur = n

UpOk(n) ==
  (/\ side = "iran" /\ n \notin raced /\ conf[n] # None
   /\ tun[n] # None /\ tun[n].up /\ ~Busy(n) /\ ~AtRule(n))
  => Installed(n, conf[n]) \subseteq rules

\* What the running command has done and may do.
CommandOk ==
  /\ side = "iran" /\ cli.pc \in {"verify", "file", "unfile", "untun"} =>
       Installed(cli.new, cli.want) \subseteq rules
  /\ cli.kind \in {"add", "remove", "apply"} =>
       cli.old = cli.new /\ conf[cli.new] = cli.want
  /\ cli.pc \in {"unrule", "rule", "rerule"} => side = "iran"
  /\ cli.pc \in {"accept", "reverify"} => side = "foreign"
  /\ cli.kind = "remove" => cli.pc \in {"stop", "drop"}
  /\ cli.kind = "apply" => cli.pc \in {"create", "rule"} /\ side = "iran"

\* A job about to install rules does so for the file as it is, or is marked.
PassOk ==
  pass.pc = "rule" => /\ side = "iran"
                      /\ \/ pass.cur \in raced
                         \/ ~Busy(pass.cur) /\ conf[pass.cur] = pass.rec

RulesInv == CommandOk /\ PassOk /\ \A n \in Names : OwnOk(n) /\ UpOk(n)

LEMMA RulesInit == Init => RulesInv
<1> SUFFICES ASSUME Init PROVE RulesInv
  OBVIOUS
<1>1. /\ cli.pc = "idle" /\ cli.kind = "none" /\ pass.pc = "idle" /\ \A n : ~Busy(n)
      /\ rules = UNION {RulesOf(n, conf[n]) : n \in Configured}
  BY DEF Init, NoCli, NoPass, Busy, Idle
<1>2. CommandOk /\ PassOk
  BY <1>1 DEF CommandOk, PassOk
<1>3. ASSUME NEW n \in Names
      PROVE  OwnOk(n) /\ UpOk(n)
  <2>1. \A m, c : \A r \in RulesOf(m, c) : r.name = m
    BY DEF RulesOf, Installed, NatRules, DnatRule, SnatRule, MssRule, AcceptRule
  <2>2. Own(n) \subseteq FileRules(n)
    BY <1>1, <2>1 DEF Own, FileRules, Configured
  <2>3. conf[n] # None => RulesOf(n, conf[n]) \subseteq rules
    BY <1>1 DEF Configured
  <2> QED BY <1>1, <2>2, <2>3 DEF OwnOk, UpOk, Expected, RulesOf
<1> QED BY <1>2, <1>3 DEF RulesInv

\* Every rule carries the name of its connection; what an edit removes of an
\* old configuration is all it stood for but the clamp.
LEMMA RuleNames ==
  ASSUME NEW n, NEW c
  PROVE  /\ \A r \in Installed(n, c) \cup Removed(n, c) \cup NatRules(n, c)
                     \cup RulesOf(n, c) \cup {AcceptRule(n, c)} : r.name = n
         /\ \A r \in Installed(n, c) : r.kind # "mss" => r \in NatRules(n, c)
         /\ NatRules(n, c) \subseteq Removed(n, c)
  BY DEF RulesOf, Installed, Removed, NatRules, DnatRule, SnatRule, MssRule, AcceptRule

\* A step of a command touches the names it is busy with only.
LEMMA CliFrame ==
  ASSUME HostInv, CliStep
  PROVE  /\ ~Idle /\ UNCHANGED <<side, pass, raced>>
         /\ \A n \in Names \ {cli.old, cli.new} : conf'[n] = conf[n] /\ tun'[n] = tun[n]
         /\ \A r : r.name \notin {cli.old, cli.new} => (r \in rules' <=> r \in rules)
         /\ cli'.pc = "idle" \/ (cli'.old = cli.old /\ cli'.new = cli.new)
<1>1. ~Idle /\ UNCHANGED <<side, pass, raced>>
  BY DEF CliStep, Unrule, CreateDone, CreateFails, Rule, Verify, Commit, Unfile, Untun, Accept,
         Stop, Drop, Down, Back, Rebuild, Rerule, Reverify, At, Idle
<1>2. \A n \in Names \ {cli.old, cli.new} : conf'[n] = conf[n]
  <2>1. conf \in [Names -> Confs \cup {None}]
    BY DEF HostInv, HostTypeOK
  <2> QED
    BY <2>1 DEF CliStep, Unrule, CreateDone, CreateFails, Rule, Verify, Commit, Unfile, Untun,
                Accept, Stop, Drop, Down, Back, Rebuild, Rerule, Reverify
<1>3. \A n \in Names \ {cli.old, cli.new} : tun'[n] = tun[n]
  <2>1. tun \in [Names -> Tuns \cup {None}]
    BY DEF HostInv, HostTypeOK
  <2> QED
    BY <2>1 DEF CliStep, Unrule, CreateDone, CreateFails, Rule, Verify, Commit, Unfile, Untun,
                Accept, Stop, Drop, Down, Back, Rebuild, Rerule, Reverify, Create
<1>4. \A r : r.name \notin {cli.old, cli.new} => (r \in rules' <=> r \in rules)
  BY RuleNames
  DEF CliStep, Unrule, CreateDone, CreateFails, Rule, Verify, Commit, Unfile, Untun, Accept,
      Stop, Drop, Down, Back, Rebuild, Rerule, Reverify
<1>5. cli'.pc = "idle" \/ (cli'.old = cli.old /\ cli'.new = cli.new)
  <2>1. (\E pc \in CliPcs : Goto(pc)) \/ \E out \in Outcomes : Finish(out)
    BY DEF CliStep, Unrule, CreateDone, CreateFails, Rule, Verify, Commit, Unfile, Untun,
           Accept, Stop, Drop, Down, Back, Rebuild, Rerule, Reverify, CliPcs, Outcomes
  <2> QED BY <2>1, GotoIs, FinishIs DEF HostInv
<1> QED BY <1>1, <1>2, <1>3, <1>4, <1>5

LEMMA CliOthers ==
  ASSUME HostInv, RulesInv, CliStep
  PROVE  /\ PassOk'
         /\ \A n \in Names \ {cli.old, cli.new} : OwnOk(n)' /\ UpOk(n)'
<1>1. /\ ~Idle /\ UNCHANGED <<side, pass, raced>>
      /\ \A n : Busy(n) <=> n \in {cli.old, cli.new}
      /\ \A n : Busy(n)' => Busy(n)
  BY CliFrame DEF Busy, Idle
<1>2. PassOk'
  <2> SUFFICES ASSUME pass'.pc = "rule", pass.cur \notin raced
               PROVE  side' = "iran" /\ ~Busy(pass.cur)' /\ conf'[pass.cur] = pass'.rec
    BY <1>1 DEF RulesInv, PassOk
  <2>1. /\ side = "iran" /\ ~Busy(pass.cur) /\ conf[pass.cur] = pass.rec
        /\ pass.cur \in Names
    BY <1>1, TypesAre DEF RulesInv, PassOk, HostInv, PassKnows
  <2> QED BY <1>1, <2>1, CliFrame
<1>3. ASSUME NEW n \in Names \ {cli.old, cli.new}
      PROVE  OwnOk(n)' /\ UpOk(n)'
  <2>1. /\ ~Busy(n) /\ ~Busy(n)' /\ conf'[n] = conf[n] /\ tun'[n] = tun[n]
        /\ OwnOk(n) /\ UpOk(n)
    BY <1>1, CliFrame DEF RulesInv
  <2>2. FileRules(n)' = FileRules(n)
    BY <1>1, <2>1 DEF FileRules, RulesOf
  <2>3. Own(n)' = Own(n)
    BY CliFrame DEF Own
  <2>4. OwnOk(n)'
    BY <1>1, <2>1, <2>2, <2>3 DEF OwnOk, Expected
  <2>5. Installed(n, conf[n]) \subseteq rules => Installed(n, conf[n]) \subseteq rules'
    BY CliFrame, RuleNames
  <2>6. UpOk(n)'
    BY <1>1, <2>1, <2>5 DEF UpOk, AtRule
  <2> QED BY <2>4, <2>6
<1> QED BY <1>2, <1>3

\* A step after which the command goes on.
LEMMA GoesOn ==
  ASSUME HostInv, RulesInv, CliStep, CommandOk', cli'.pc # "idle",
         \A n \in Names : n \in {cli.old, cli.new} => OwnOk(n)'
  PROVE  RulesInv'
<1>1. \A n \in {cli.old, cli.new} : Busy(n)'
  BY CliFrame DEF Busy, Idle
<1> QED BY <1>1, CliOthers DEF RulesInv, UpOk

\* A step that ends the command.
LEMMA Ends ==
  ASSUME HostInv, RulesInv, CliStep, NEW out \in Outcomes, Finish(out),
         \A n \in Names : n \in {cli.old, cli.new} =>
           /\ n \in raced \/ Own(n)' \subseteq FileRules(n)'
           /\ side = "iran" /\ n \notin raced /\ conf'[n] # None
                /\ tun'[n] # None /\ tun'[n].up
              => Installed(n, conf'[n]) \subseteq rules'
  PROVE  RulesInv'
<1>1. cli'.pc = "idle" /\ cli'.kind = "none" /\ \A n : ~Busy(n)'
  BY FinishIs DEF Busy, Idle
<1>2. CommandOk'
  BY <1>1 DEF CommandOk
<1>3. ASSUME NEW n \in Names, n \in {cli.old, cli.new}
      PROVE  OwnOk(n)' /\ UpOk(n)'
  BY <1>1, <1>3, CliFrame DEF OwnOk, UpOk, Expected
<1> QED BY <1>2, <1>3, CliOthers DEF RulesInv

\* What a running command starts a step from.
LEMMA CliHas ==
  ASSUME HostInv, RulesInv, ~Idle
  PROVE  /\ cli.old \in Names /\ cli.new \in Names /\ cli.want \in Confs
         /\ side \in {"iran", "foreign"} /\ None \notin Confs
         /\ conf \in [Names -> Confs \cup {None}] /\ tun \in [Names -> Tuns \cup {None}]
         /\ CommandOk /\ Shape(cli) /\ Transaction
         /\ \A n \in {cli.old, cli.new} : n \in raced \/ Own(n) \subseteq Expected(n)
         /\ cli.kind = "edit" =>
              cli.was \in Confs /\ \A n \in {cli.old, cli.new} : Expected(n) = EditRules(n, cli.pc)
<1>1. /\ cli.old \in Names /\ cli.new \in Names /\ cli.want \in Confs
      /\ side \in {"iran", "foreign"} /\ None \notin Confs
      /\ conf \in [Names -> Confs \cup {None}] /\ tun \in [Names -> Tuns \cup {None}]
      /\ cli.kind = "edit" => cli.was \in Confs
  BY TypesAre, HostAssumption DEF HostInv, Knows, Idle
<1>2. CommandOk /\ Shape(cli) /\ Transaction
  BY DEF HostInv, RulesInv
<1>3. \A n \in {cli.old, cli.new} : n \in raced \/ Own(n) \subseteq Expected(n)
  BY <1>1 DEF RulesInv, OwnOk
<1>4. cli.kind = "edit" => \A n \in {cli.old, cli.new} : Expected(n) = EditRules(n, cli.pc)
  BY DEF Expected, Busy
<1> QED BY <1>1, <1>2, <1>3, <1>4

LEMMA EditGoesOn ==
  ASSUME HostInv, RulesInv, CliStep, cli.kind = "edit",
         NEW pc \in CliPcs \ {"idle"}, Goto(pc),
         pc \in {"unrule", "rule", "rerule"} => side = "iran",
         pc \in {"accept", "reverify"} => side = "foreign",
         side = "iran" /\ pc \in {"verify", "file", "unfile", "untun"} =>
           Installed(cli.new, cli.want) \subseteq rules',
         \A n \in {cli.old, cli.new} : n \in raced \/ Own(n)' \subseteq EditRules(n, pc)
  PROVE  RulesInv'
<1>1. /\ ~Idle /\ side' = side /\ raced' = raced
  BY CliFrame
<1>2. /\ cli'.pc = pc /\ cli'.kind = "edit" /\ cli'.old = cli.old /\ cli'.new = cli.new
      /\ cli'.was = cli.was /\ cli'.want = cli.want
  BY GotoIs DEF HostInv
<1>3. CommandOk'
  BY <1>1, <1>2 DEF CommandOk
<1>4. ASSUME NEW n \in Names, n \in {cli.old, cli.new}
      PROVE  OwnOk(n)'
  <2>1. Expected(n)' = EditRules(n, pc)
    BY <1>1, <1>2, <1>4 DEF Expected, EditRules, Busy, Idle
  <2> QED BY <1>1, <1>4, <2>1 DEF OwnOk
<1> QED BY <1>2, <1>3, <1>4, GoesOn

LEMMA OtherGoesOn ==
  ASSUME HostInv, RulesInv, CliStep, cli.kind # "edit",
         NEW pc \in CliPcs \ {"idle"}, Goto(pc),
         pc \in {"rule", "accept", "stop", "drop"},
         pc = "rule" => side = "iran",
         pc = "accept" => side = "foreign" /\ cli.kind = "add",
         cli.kind = "remove" => pc = "drop",
         cli.kind = "apply" => pc = "rule",
         conf' = conf,
         \A n \in {cli.new} :
           n \in raced \/ Own(n)' \subseteq (IF cli.kind = "apply" THEN FileRules(n) ELSE {})
  PROVE  RulesInv'
<1>1. /\ ~Idle /\ side' = side /\ raced' = raced
  BY CliFrame
<1>2. /\ cli'.pc = pc /\ cli'.kind = cli.kind /\ cli'.old = cli.old /\ cli'.new = cli.new
      /\ cli'.was = cli.was /\ cli'.want = cli.want
  BY GotoIs DEF HostInv
<1>3. cli.kind \in {"add", "remove", "apply"}
  BY <1>1, TypesAre DEF HostInv, CliSet, Kinds, Shape, Idle
<1>4. cli.old = cli.new /\ conf[cli.new] = cli.want
  BY <1>3 DEF RulesInv, CommandOk
<1>5. CommandOk'
  BY <1>1, <1>2, <1>3, <1>4 DEF CommandOk, RulesInv
<1>6. ASSUME NEW n \in Names, n \in {cli.old, cli.new}
      PROVE  OwnOk(n)'
  <2>1. FileRules(n)' = FileRules(n) /\ n = cli.new
    BY <1>1, <1>4, <1>6 DEF FileRules, RulesOf
  <2>2. CASE cli.kind = "apply"
    BY <1>1, <1>2, <1>6, <2>1, <2>2 DEF OwnOk, Expected, Busy, Idle
  <2>3. CASE cli.kind # "apply"
    <3>1. Own(n)' = {} \/ n \in raced
      BY <2>1, <2>3
    <3> QED BY <1>1, <3>1 DEF OwnOk
  <2> QED BY <2>2, <2>3
<1> QED BY <1>2, <1>5, <1>6, GoesOn

LEMMA UnruleKeeps ==
  ASSUME HostInv, RulesInv, CliStep, Unrule
  PROVE  RulesInv'
<1>1. /\ ~Idle /\ cli.kind = "edit" /\ side = "iran" /\ cli.pc = "unrule"
      /\ rules' = rules \ Removed(cli.old, cli.was)
  BY CliFrame DEF Unrule, At, HostInv, Shape, RulesInv, CommandOk
<1>2. \A n \in {cli.old, cli.new} : n \in raced \/ Own(n)' \subseteq {}
  <2> SUFFICES ASSUME NEW n \in {cli.old, cli.new}, n \notin raced
               PROVE  Own(n)' \subseteq {}
    OBVIOUS
  <2>1. Own(n) \subseteq (IF n = cli.old THEN Installed(n, cli.was) ELSE {})
    BY <1>1, CliHas DEF EditRules
  <2>2. \A r \in Own(n) : r \in Removed(cli.old, cli.was)
    BY <2>1, RuleNames DEF Own
  <2> QED BY <1>1, <2>2 DEF Own
<1>3. PICK pc \in {"create", "rule"} : Goto(pc)
  BY DEF Unrule
<1> QED BY <1>1, <1>2, <1>3, EditGoesOn DEF EditRules, CliPcs

LEMMA CreateKeeps ==
  ASSUME HostInv, RulesInv, CliStep, CreateDone \/ CreateFails
  PROVE  RulesInv'
<1>1. /\ ~Idle /\ cli.pc = "create" /\ rules' = rules /\ conf' = conf
      /\ side' = side /\ raced' = raced
  BY CliFrame DEF CreateDone, CreateFails, At
<1>2. /\ cli.kind \in {"add", "edit", "apply"}
      /\ cli.kind # "edit" => cli.old = cli.new
      /\ cli.kind = "apply" => side = "iran"
  BY <1>1, TypesAre DEF HostInv, CliSet, Kinds, Shape, RulesInv, CommandOk
<1>3. \A n : Own(n)' = Own(n)
  BY <1>1 DEF Own
<1>4. \A n \in {cli.old, cli.new} : n \in raced \/ Own(n) \subseteq Expected(n)
  BY <1>1, CliHas
<1>5. CASE cli.kind = "edit"
  <2>1. PICK pc \in {"rule", "verify", "down"} :
          /\ Goto(pc)
          /\ pc = "rule" => side = "iran"
          /\ pc = "verify" => side = "foreign"
    BY <1>1, <1>5, CliHas DEF CreateDone, CreateFails
  <2>2. \A n \in {cli.old, cli.new} :
          n \in raced \/ Own(n) \subseteq (IF side = "foreign" /\ n = cli.old
                                           THEN {AcceptRule(n, cli.was)} ELSE {})
    BY <1>1, <1>4, <1>5, CliHas DEF EditRules
  <2>3. \A n \in {cli.old, cli.new} : n \in raced \/ Own(n) \subseteq EditRules(n, pc)
    BY <2>2, <1>1, CliHas DEF EditRules
  <2>4. \A n \in {cli.old, cli.new} : n \in raced \/ Own(n)' \subseteq EditRules(n, pc)
    BY <1>3, <2>3
  <2>5. /\ pc \in CliPcs \ {"idle"} /\ pc \notin {"unrule", "rerule", "accept", "reverify"}
        /\ ~(side = "iran" /\ pc \in {"verify", "file", "unfile", "untun"})
    BY <2>1 DEF CliPcs
  <2> QED BY <1>5, <2>1, <2>4, <2>5, EditGoesOn
<1>6. CASE cli.kind # "edit" /\ cli'.pc # "idle"
  <2>0. \A pc \in CliPcs : Goto(pc) => cli'.pc = pc
    BY GotoIs DEF HostInv
  <2>1. PICK pc \in {"rule", "accept", "stop", "drop"} :
          /\ Goto(pc)
          /\ pc = "rule" => side = "iran"
          /\ pc = "accept" => side = "foreign" /\ cli.kind = "add"
          /\ cli.kind = "apply" => pc = "rule"
    BY <1>1, <1>2, <1>6, <2>0, FinishIs, CliHas DEF CreateDone, CreateFails, Outcomes
  <2>2. \A n \in {cli.new} :
          n \in raced \/ Own(n) \subseteq (IF cli.kind = "apply" THEN FileRules(n) ELSE {})
    BY <1>1, <1>2, <1>4, <1>6, CliHas DEF Expected, Busy
  <2>3. \A n \in {cli.new} :
          n \in raced \/ Own(n)' \subseteq (IF cli.kind = "apply" THEN FileRules(n) ELSE {})
    BY <1>3, <2>2
  <2>4. pc \in CliPcs \ {"idle"} /\ cli.kind # "remove"
    BY <1>2, <2>1 DEF CliPcs
  <2> QED BY <1>1, <1>6, <2>1, <2>3, <2>4, OtherGoesOn
<1>7. CASE cli.kind # "edit" /\ cli'.pc = "idle"
  <2>0. \A pc \in CliPcs : Goto(pc) => cli'.pc = pc
    BY GotoIs DEF HostInv
  <2>1. /\ cli.kind = "apply" /\ Finish("failed") /\ cli.old = cli.new
        /\ \E t \in BrokenTuns(cli.want) : Create(cli.new, t)
    BY <1>1, <1>2, <1>7, <2>0 DEF CreateDone, CreateFails, CliPcs
  <2>2. PICK n \in Names, t \in BrokenTuns(cli.want) : n = cli.new /\ Create(n, t)
    BY <1>1, <2>1, CliHas
  <2>3. tun'[n] = None \/ ~tun'[n].up
    BY <1>1, <2>2, CliHas DEF Create, BrokenTuns
  <2>4. n \in raced \/ Own(n)' \subseteq FileRules(n)'
    BY <1>1, <1>3, <1>4, <2>1, <2>2 DEF Expected, Busy, FileRules, RulesOf
  <2> QED BY <1>1, <2>1, <2>2, <2>3, <2>4, Ends DEF Outcomes
<1> QED BY <1>2, <1>5, <1>6, <1>7

LEMMA RuleKeeps ==
  ASSUME HostInv, RulesInv, CliStep, Rule
  PROVE  RulesInv'
<1>1. /\ ~Idle /\ cli.pc = "rule" /\ side = "iran" /\ conf' = conf
      /\ rules' = rules \cup Installed(cli.new, cli.want)
      /\ side' = side /\ raced' = raced
  BY CliFrame DEF Rule, At, RulesInv, CommandOk
<1>2. \A n \in {cli.old, cli.new} : n \in raced \/ Own(n) \subseteq Expected(n)
  BY <1>1, CliHas
<1>3. \A n : Own(n)' \subseteq Own(n) \cup (IF n = cli.new THEN Installed(n, cli.want) ELSE {})
  BY <1>1, RuleNames DEF Own
<1>4. CASE cli.kind = "edit"
  <2>1. \A n \in {cli.old, cli.new} : n \in raced \/ Own(n) \subseteq {}
    BY <1>1, <1>2, <1>4, CliHas DEF EditRules
  <2>2. \A n \in {cli.old, cli.new} : n \in raced \/ Own(n)' \subseteq EditRules(n, "verify")
    BY <1>1, <1>3, <2>1 DEF EditRules
  <2>3. Goto("verify")
    BY <1>4 DEF Rule
  <2> QED BY <1>1, <1>4, <2>2, <2>3, EditGoesOn DEF CliPcs
<1>5. CASE cli.kind # "edit"
  <2>1. /\ cli.kind \in {"add", "apply"} /\ Finish("ok")
        /\ cli.old = cli.new /\ conf[cli.new] = cli.want
    BY <1>1, <1>5, TypesAre DEF HostInv, CliSet, Kinds, Shape, Rule, RulesInv, CommandOk
  <2>2. PICK n \in Names : n = cli.new
    BY <1>1, CliHas
  <2>3. FileRules(n)' = Installed(n, cli.want) /\ FileRules(n) = Installed(n, cli.want)
        /\ conf'[n] = cli.want
    BY <1>1, <2>1, <2>2, CliHas DEF FileRules, RulesOf
  <2>4. n \in raced \/ Own(n)' \subseteq FileRules(n)'
    BY <1>2, <1>3, <1>5, <2>1, <2>2, <2>3, <1>1 DEF Expected, Busy
  <2> QED BY <1>1, <2>1, <2>2, <2>3, <2>4, Ends DEF Outcomes
<1> QED BY <1>4, <1>5

LEMMA VerifyKeeps ==
  ASSUME HostInv, RulesInv, CliStep, Verify
  PROVE  RulesInv'
<1>1. ~Idle /\ cli.kind = "edit" /\ cli.pc = "verify" /\ rules' = rules
  BY CliFrame DEF Verify, At, HostInv, Shape
<1>2. PICK pc \in {"file", "down"} : Goto(pc)
  BY DEF Verify
<1>3. \A n \in {cli.old, cli.new} : n \in raced \/ Own(n) \subseteq EditRules(n, "verify")
  BY <1>1, CliHas
<1>4. \A n \in {cli.old, cli.new} : n \in raced \/ Own(n)' \subseteq EditRules(n, pc)
  BY <1>1, <1>2, <1>3 DEF EditRules, Own
<1>5. side = "iran" => Installed(cli.new, cli.want) \subseteq rules'
  BY <1>1 DEF RulesInv, CommandOk
<1>6. pc \in CliPcs \ {"idle"} /\ pc \notin {"unrule", "rule", "rerule", "accept", "reverify"}
  BY <1>2 DEF CliPcs
<1> QED BY <1>1, <1>2, <1>4, <1>5, <1>6, EditGoesOn

\* Commit, and the two steps of a rename after it.
LEMMA CommitKeeps ==
  ASSUME HostInv, RulesInv, CliStep, Commit \/ Unfile \/ Untun
  PROVE  RulesInv'
<1>1. /\ ~Idle /\ cli.kind = "edit" /\ cli.pc \in {"file", "unfile", "untun"}
      /\ rules' = rules /\ side' = side /\ raced' = raced
  BY CliFrame DEF Commit, Unfile, Untun, At, HostInv, Shape
<1>2. side = "iran" => Installed(cli.new, cli.want) \subseteq rules'
  BY <1>1 DEF RulesInv, CommandOk
<1>3. \A n \in {cli.old, cli.new} : n \in raced \/ Own(n)' \subseteq EditRules(n, "file")
  <2>1. \A n : EditRules(n, cli.pc) = EditRules(n, "file")
    BY <1>1 DEF EditRules
  <2> QED BY <1>1, <2>1, CliHas DEF Own
<1>4. CASE cli'.pc # "idle"
  <2>1. PICK pc \in {"unfile", "untun", "accept"} : Goto(pc) /\ (pc = "accept" => side = "foreign")
    BY <1>4, FinishIs DEF Commit, Unfile, Untun, Outcomes
  <2>2. \A n : EditRules(n, pc) = EditRules(n, "file")
    BY <2>1 DEF EditRules
  <2>3. pc \in CliPcs \ {"idle"} /\ pc \notin {"unrule", "rule", "rerule", "reverify"}
    BY <2>1 DEF CliPcs
  <2> QED BY <1>1, <1>2, <1>3, <2>1, <2>2, <2>3, EditGoesOn
<1>5. CASE cli'.pc = "idle"
  <2>0. \A pc \in CliPcs : Goto(pc) => cli'.pc = pc
    BY GotoIs DEF HostInv
  <2>1. Finish("ok") /\ side = "iran"
    BY <1>5, <2>0, CliHas, <1>1 DEF Commit, Unfile, Untun, CliPcs
  <2>2. conf'[cli.new] = cli.want /\ (cli.old # cli.new => conf'[cli.old] = None)
    BY <1>1, <1>5, <2>0, CliHas DEF Commit, Unfile, Untun, Transaction, At, CliPcs
  <2>3. ASSUME NEW n \in Names, n \in {cli.old, cli.new}, n \notin raced
        PROVE  /\ Own(n)' \subseteq FileRules(n)'
               /\ conf'[n] # None => Installed(n, conf'[n]) \subseteq rules'
    <3>1. Own(n)' \subseteq (IF n = cli.new THEN Installed(n, cli.want) ELSE {})
      BY <1>3, <2>1, <2>3 DEF EditRules
    <3>2. FileRules(n)' = IF n = cli.new THEN Installed(n, cli.want) ELSE {}
      BY <1>1, <2>1, <2>2, <2>3, CliHas DEF FileRules, RulesOf
    <3> QED BY <1>2, <2>1, <2>2, <2>3, <3>1, <3>2
  <2> QED BY <2>1, <2>3, Ends DEF Outcomes
<1> QED BY <1>4, <1>5

LEMMA AcceptKeeps ==
  ASSUME HostInv, RulesInv, CliStep, Accept
  PROVE  RulesInv'
<1>1. /\ ~Idle /\ cli.pc = "accept" /\ side = "foreign" /\ conf' = conf /\ Finish("ok")
      /\ side' = side /\ cli.kind \in {"add", "edit"}
      /\ conf[cli.new] = cli.want /\ (cli.old # cli.new => conf[cli.old] = None)
  BY CliFrame, TypesAre
  DEF Accept, At, HostInv, RulesInv, CommandOk, Shape, CliSet, Kinds, Transaction
<1>2. ASSUME NEW n \in Names, n \in {cli.old, cli.new}, n \notin raced
      PROVE  Own(n)' \subseteq FileRules(n)'
  <2>1. FileRules(n)' = IF n = cli.new THEN {AcceptRule(n, cli.want)} ELSE {}
    BY <1>1, <1>2, CliHas DEF FileRules, RulesOf
  <2>2. CASE cli.kind = "add"
    <3>1. n = cli.new /\ Own(n) \subseteq {}
      BY <1>1, <1>2, <2>2, CliHas DEF CommandOk, Expected, Busy
    <3>2. rules' = rules \cup {AcceptRule(n, cli.want)}
      BY <2>2, <3>1 DEF Accept
    <3> QED BY <2>1, <3>1, <3>2 DEF Own
  <2>3. CASE cli.kind = "edit"
    <3>1. Own(n) \subseteq (IF n = cli.old THEN {AcceptRule(n, cli.was)} ELSE {})
      BY <1>1, <1>2, <2>3, CliHas DEF EditRules
    <3>2. rules' \subseteq rules
      BY <2>3 DEF Accept
    <3>3. CASE cli.old # cli.new \/ cli.was.link # cli.want.link
      <4>1. rules' = rules \ {AcceptRule(cli.old, cli.was)}
        BY <2>3, <3>3 DEF Accept
      <4> QED BY <3>1, <4>1 DEF Own
    <3>4. CASE ~(cli.old # cli.new \/ cli.was.link # cli.want.link)
      <4>1. n = cli.new /\ AcceptRule(n, cli.was) = AcceptRule(n, cli.want)
        BY <1>2, <3>4 DEF AcceptRule
      <4> QED BY <2>1, <3>1, <3>2, <4>1 DEF Own
    <3> QED BY <3>3, <3>4
  <2> QED BY <1>1, <2>2, <2>3
<1> QED BY <1>1, <1>2, Ends DEF Outcomes

\* stop_iran_peer or cli_node_remove, then the file.
LEMMA StopKeeps ==
  ASSUME HostInv, RulesInv, CliStep, Stop \/ Drop
  PROVE  RulesInv'
<1>1. /\ ~Idle /\ cli.kind \in {"add", "remove"} /\ cli.pc \in {"stop", "drop"}
      /\ cli.old = cli.new /\ conf[cli.new] = cli.want /\ side' = side
  BY CliFrame DEF Stop, Drop, At, HostInv, Shape, RulesInv, CommandOk
<1>2. PICK n \in Names : n = cli.new
  BY <1>1, CliHas
<1>3. CASE Stop
  <2>1. Goto("drop") /\ conf' = conf
    BY <1>3 DEF Stop
  <2>2. n \in raced \/ Own(n)' \subseteq {}
    <3>1. n \in raced \/ Own(n) \subseteq FileRules(n)
      BY <1>1, <1>2, CliHas DEF Expected, Busy
    <3>2. rules' = rules \ (IF side = "iran" THEN NatRules(n, cli.want)
                            ELSE {AcceptRule(n, cli.want)})
      BY <1>2, <1>3 DEF Stop
    <3>3. FileRules(n) = IF side = "iran" THEN Installed(n, cli.want)
                         ELSE {AcceptRule(n, cli.want)}
      BY <1>1, <1>2, CliHas DEF FileRules, RulesOf
    <3> QED BY <3>1, <3>2, <3>3, RuleNames DEF Own
  <2> QED BY <1>1, <1>2, <2>1, <2>2, OtherGoesOn DEF CliPcs
<1>4. CASE Drop
  <2>1. cli.pc = "drop" /\ rules' = rules /\ conf'[n] = None
    BY <1>1, <1>2, <1>4, CliHas DEF Drop, At
  <2>2. n \in raced \/ Own(n)' \subseteq {}
    BY <1>1, <1>2, <2>1, CliHas DEF Expected, Busy, Own
  <2>3. PICK out \in Outcomes : Finish(out)
    BY <1>4 DEF Drop, Outcomes
  <2> QED BY <1>1, <1>2, <2>1, <2>2, <2>3, Ends
<1> QED BY <1>3, <1>4

\* edit_rollback.
LEMMA RollbackKeeps ==
  ASSUME HostInv, RulesInv, CliStep, Down \/ Back \/ Rebuild
  PROVE  RulesInv'
<1>1. /\ ~Idle /\ cli.kind = "edit" /\ cli.pc \in {"down", "back", "rebuild"}
      /\ cli.pc # "down" => rules' = rules
  BY CliFrame DEF Down, Back, Rebuild, At, HostInv, Shape, RollbackPcs
<1>2. PICK pc \in {"back", "rebuild", "rerule", "reverify"} :
        /\ Goto(pc)
        /\ pc = "rerule" => side = "iran"
        /\ pc = "reverify" => side = "foreign"
  BY <1>1, CliHas DEF Down, Back, Rebuild
<1>3. \A n \in {cli.old, cli.new} : n \in raced \/ Own(n) \subseteq EditRules(n, cli.pc)
  BY <1>1, CliHas
<1>4. ASSUME NEW n \in {cli.old, cli.new}, n \notin raced
      PROVE  Own(n)' \subseteq EditRules(n, pc)
  <2>1. CASE side = "foreign"
    BY <1>1, <1>3, <1>4, <2>1 DEF EditRules, Own, Down, Back, Rebuild
  <2>2. CASE side = "iran" /\ cli.pc = "down"
    <3>1. rules' = rules \ Removed(cli.new, cli.want)
      BY <2>2 DEF Down, Back, Rebuild, At
    <3>2. Own(n) \subseteq (IF n = cli.new THEN Installed(n, cli.want) ELSE {})
      BY <1>3, <1>4, <2>2 DEF EditRules
    <3>3. \A r \in Own(n) : r \in Removed(cli.new, cli.want)
      BY <3>2, RuleNames DEF Own
    <3> QED BY <3>1, <3>3 DEF Own
  <2>3. CASE side = "iran" /\ cli.pc # "down"
    <3>1. Own(n) \subseteq {}
      BY <1>1, <1>3, <1>4, <2>3 DEF EditRules
    <3> QED BY <1>1, <2>3, <3>1 DEF Own
  <2> QED BY <1>1, <2>1, <2>2, <2>3, CliHas
<1>5. pc \in CliPcs \ {"idle"}
      /\ pc \notin {"unrule", "rule", "accept", "verify", "file", "unfile", "untun"}
  BY <1>2 DEF CliPcs
<1> QED BY <1>1, <1>2, <1>4, <1>5, EditGoesOn

LEMMA RestoredKeeps ==
  ASSUME HostInv, RulesInv, CliStep, Rerule \/ Reverify
  PROVE  RulesInv'
<1>1. /\ ~Idle /\ cli.kind = "edit" /\ cli.pc \in {"rerule", "reverify"} /\ side' = side
      /\ conf' = conf /\ cli.was \in Confs
      /\ cli.pc = "rerule" <=> side = "iran"
  BY CliFrame, CliHas
  DEF Rerule, Reverify, At, HostInv, Shape, RollbackPcs, RulesInv, CommandOk
<1>2. conf[cli.old] = cli.was /\ (cli.old # cli.new => conf[cli.new] = None)
  BY <1>1, CliHas DEF Transaction, Pending, PendingPcs, RollbackPcs
<1>3. PICK out \in Outcomes : Finish(out)
  BY DEF Rerule, Reverify, Outcomes
<1>4. ASSUME NEW n \in Names, n \in {cli.old, cli.new}, n \notin raced
      PROVE  /\ Own(n)' \subseteq FileRules(n)'
             /\ side = "iran" /\ conf'[n] # None => Installed(n, conf'[n]) \subseteq rules'
  <2>1. FileRules(n)' = IF n = cli.old THEN RulesOf(n, cli.was) ELSE {}
    BY <1>1, <1>2, <1>4, CliHas DEF FileRules, RulesOf
  <2>2. Own(n) \subseteq EditRules(n, cli.pc)
    BY <1>1, <1>4, CliHas
  <2>3. CASE side = "iran"
    <3>1. Own(n) \subseteq {}
      BY <1>1, <2>2, <2>3 DEF EditRules
    <3>2. rules' = (rules \ Removed(cli.old, cli.was)) \cup Installed(cli.old, cli.was)
      BY <1>1, <2>3 DEF Rerule, Reverify, At
    <3>3. Own(n)' \subseteq (IF n = cli.old THEN Installed(n, cli.was) ELSE {})
      BY <3>1, <3>2, RuleNames DEF Own
    <3> QED BY <1>1, <1>2, <1>4, <2>1, <2>3, <3>2, <3>3 DEF RulesOf
  <2>4. CASE side = "foreign"
    <3>1. rules' = rules
      BY <1>1, <2>4 DEF Rerule, Reverify, At
    <3>2. Own(n)' \subseteq (IF n = cli.old THEN {AcceptRule(n, cli.was)} ELSE {})
      BY <2>2, <2>4, <3>1 DEF EditRules, Own
    <3> QED BY <2>1, <2>4, <3>2 DEF RulesOf
  <2> QED BY <2>3, <2>4, <1>1, CliHas
<1> QED BY <1>1, <1>3, <1>4, Ends

LEMMA CliRules ==
  ASSUME HostInv, RulesInv, CliStep
  PROVE  RulesInv'
  BY UnruleKeeps, CreateKeeps, RuleKeeps, VerifyKeeps, CommitKeeps, AcceptKeeps, StopKeeps,
     RollbackKeeps, RestoredKeeps DEF CliStep

\* A command begins: its names were in order, and it finds them so.
LEMMA BeginRules ==
  ASSUME HostInv, RulesInv, NEW n \in Names, NEW m \in Names,
         NEW pc, NEW kind, NEW was, NEW want, Begin(pc, kind, n, m, was, want),
         pc # "idle",
         tun' = tun, rules' = rules, \A k \in Names \ {n, m} : conf'[k] = conf[k],
         CommandOk',
         \A k \in {n, m} : Own(k) \subseteq FileRules(k) => Own(k) \subseteq Expected(k)'
  PROVE  RulesInv'
<1>1. /\ Idle /\ cli'.pc = pc /\ cli'.old = n /\ cli'.new = m /\ side' = side /\ pass' = pass
      /\ raced' = IF pass.pc = "rule" /\ pass.cur \in {n, m} THEN raced \cup {pass.cur} ELSE raced
  BY DEF Begin
<1>2. \A k : ~Busy(k) /\ Own(k)' = Own(k) /\ (Busy(k)' <=> k \in {n, m})
  BY <1>1 DEF Busy, Idle, Own
<1>3. PassOk'
  <2> SUFFICES ASSUME pass.pc = "rule"
               PROVE  /\ side = "iran"
                      /\ pass.cur \in raced' \/ (~Busy(pass.cur)' /\ conf'[pass.cur] = pass.rec)
    BY <1>1 DEF PassOk
  <2>1. PICK k \in Names : k = pass.cur
    BY TypesAre DEF HostInv, PassKnows
  <2>2. side = "iran" /\ (k \in raced \/ conf[k] = pass.rec)
    BY <2>1 DEF RulesInv, PassOk
  <2> QED BY <1>1, <1>2, <2>1, <2>2
<1>4. ASSUME NEW k \in Names
      PROVE  OwnOk(k)' /\ UpOk(k)'
  <2>1. (k \in raced \/ Own(k) \subseteq FileRules(k)) /\ UpOk(k) /\ (k \in raced => k \in raced')
    BY <1>1, <1>2 DEF RulesInv, OwnOk, Expected
  <2>2. CASE k \in {n, m}
    BY <1>2, <2>1, <2>2 DEF OwnOk, UpOk
  <2>3. CASE k \notin {n, m}
    <3>1. conf'[k] = conf[k] /\ tun'[k] = tun[k] /\ ~Busy(k)'
      BY <1>2, <2>3
    <3>2. Expected(k)' = FileRules(k)
      BY <1>1, <3>1 DEF Expected, FileRules, RulesOf
    <3>3. k \notin raced' => k \notin raced
      BY <2>1
    <3> QED BY <1>1, <1>2, <2>1, <3>1, <3>2, <3>3 DEF OwnOk, UpOk, AtRule
  <2> QED BY <2>2, <2>3
<1> QED BY <1>3, <1>4 DEF RulesInv

LEMMA RequestRules ==
  ASSUME HostInv, RulesInv,
         \/ \E n \in Names, c \in Askable : BeginAdd(n, c)
         \/ \E n, m \in Names, c \in Askable : BeginEdit(n, m, c)
         \/ \E n \in Names : BeginRemove(n) \/ BeginApply(n)
  PROVE  RulesInv'
<1>0. side \in {"iran", "foreign"} /\ conf \in [Names -> Confs \cup {None}] /\ None \notin Confs
  BY TypesAre, HostAssumption DEF HostInv
<1>1. ASSUME NEW n \in Names, NEW c \in Askable, BeginAdd(n, c)
      PROVE  RulesInv'
  <2>1. /\ Begin("create", "add", n, n, None, c) /\ conf[n] = None
        /\ conf' = [conf EXCEPT ![n] = c] /\ tun' = tun /\ rules' = rules
    BY <1>1 DEF BeginAdd
  <2>2. /\ cli'.pc = "create" /\ cli'.kind = "add" /\ cli'.old = n /\ cli'.new = n
        /\ cli'.want = c
    BY <2>1 DEF Begin
  <2>3. CommandOk'
    BY <1>0, <2>1, <2>2 DEF CommandOk
  <2>4. \A k \in {n} : Own(k) \subseteq FileRules(k) => Own(k) \subseteq Expected(k)'
    BY <2>1 DEF FileRules
  <2> QED BY <1>0, <2>1, <2>3, <2>4, BeginRules
<1>2. ASSUME NEW n \in Names, NEW m \in Names, NEW c \in Askable, BeginEdit(n, m, c)
      PROVE  RulesInv'
  <2>1. PICK pc \in {"unrule", "create"} :
          /\ Begin(pc, "edit", n, m, conf[n], c)
          /\ pc = "unrule" <=> side = "iran"
    BY <1>0, <1>2 DEF BeginEdit, Snapshot
  <2>2. /\ conf' = conf /\ tun' = tun /\ rules' = rules /\ side' = side
        /\ conf[n] # None /\ (m # n => conf[m] = None)
    BY <1>2 DEF BeginEdit, Begin
  <2>3. /\ cli'.pc = pc /\ cli'.kind = "edit" /\ cli'.old = n /\ cli'.new = m
        /\ cli'.was = conf[n]
    BY <2>1 DEF Begin
  <2>4. CommandOk'
    BY <2>1, <2>2, <2>3 DEF CommandOk
  <2>5. ASSUME NEW k \in {n, m}, Own(k) \subseteq FileRules(k)
        PROVE  Own(k) \subseteq Expected(k)'
    <3>1. FileRules(k) = IF k = n THEN RulesOf(n, conf[n]) ELSE {}
      BY <2>2 DEF FileRules
    <3>2. Expected(k)' = EditRules(k, pc)'
      BY <2>1, <2>3 DEF Expected, Busy, Idle
    <3>3. EditRules(k, pc)' = IF k = n THEN RulesOf(n, conf[n]) ELSE {}
      BY <1>0, <2>1, <2>2, <2>3 DEF EditRules, RulesOf
    <3> QED BY <2>5, <3>1, <3>2, <3>3
  <2> QED BY <2>1, <2>2, <2>4, <2>5, BeginRules
<1>3. ASSUME NEW n \in Names, BeginRemove(n) \/ BeginApply(n)
      PROVE  RulesInv'
  <2>1. PICK pc \in {"stop", "create"}, kind \in {"remove", "apply"} :
          /\ Begin(pc, kind, n, n, conf[n], conf[n])
          /\ pc = "stop" <=> kind = "remove"
          /\ kind = "apply" => side = "iran"
    BY <1>3 DEF BeginRemove, BeginApply
  <2>2. conf' = conf /\ tun' = tun /\ rules' = rules /\ side' = side
    BY <1>3 DEF BeginRemove, BeginApply, Begin
  <2>3. /\ cli'.pc = pc /\ cli'.kind = kind /\ cli'.old = n /\ cli'.new = n
        /\ cli'.want = conf[n]
    BY <2>1 DEF Begin
  <2>4. CommandOk'
    BY <2>1, <2>2, <2>3 DEF CommandOk
  <2>5. \A k \in {n} : Own(k) \subseteq FileRules(k) => Own(k) \subseteq Expected(k)'
    BY <2>1, <2>2, <2>3 DEF Expected, FileRules, RulesOf, Busy, Idle
  <2> QED BY <2>1, <2>2, <2>4, <2>5, BeginRules
<1> QED BY <1>1, <1>2, <1>3

----------------------------------------------------------------------------
\* The jobs of systemd, and commands cut short.

LEMMA PassLooks ==
  ASSUME HostInv, RulesInv,
         BeginWatch \/ ApplyGone \/ \E n \in Names : Skip(n) \/ NeedsApply(n)
  PROVE  RulesInv'
<1>1. /\ UNCHANGED <<side, conf, tun, rules, cli, raced>>
      /\ pass.pc # "rule" /\ pass'.pc # "rule"
  <2>1. pass \in PassSet
    BY TypesAre DEF HostInv
  <2> QED
    BY <2>1 DEF BeginWatch, ApplyGone, Skip, NeedsApply, Visit, NextFile, NoPass, PassSet
<1>2. CommandOk' /\ PassOk'
  BY <1>1 DEF RulesInv, CommandOk, PassOk
<1>3. ASSUME NEW n \in Names
      PROVE  OwnOk(n)' /\ UpOk(n)'
  <2>1. OwnOk(n) /\ UpOk(n)
    BY DEF RulesInv
  <2>2. Own(n)' = Own(n) /\ Expected(n)' = Expected(n)
    BY <1>1 DEF Own, Expected, EditRules, FileRules, RulesOf, Busy, Idle
  <2> QED BY <1>1, <2>1, <2>2 DEF OwnOk, UpOk, AtRule, Busy, Idle
<1> QED BY <1>2, <1>3 DEF RulesInv

LEMMA PassBuilds ==
  ASSUME HostInv, RulesInv, ApplyTun
  PROVE  RulesInv'
<1>0. pass \in PassSet /\ tun \in [Names -> Tuns \cup {None}] /\ side \in {"iran", "foreign"}
  BY TypesAre DEF HostInv
<1>1. PICK n \in Names : n = pass.cur
  BY TypesAre DEF HostInv, ApplyTun, PassKnows
<1>2. /\ UNCHANGED <<side, conf, rules, cli>> /\ raced \subseteq raced'
      /\ pass.pc = "apply" /\ (Busy(n) => n \in raced')
  BY <1>1 DEF ApplyTun, Overlap
<1>3. \A k : Busy(k)' <=> Busy(k)
  BY <1>2 DEF Busy, Idle
<1>4. CommandOk'
  BY <1>2 DEF RulesInv, CommandOk
<1>5. \/ /\ pass'.pc = "rule" /\ pass'.cur = n /\ pass'.rec = conf[n] /\ side = "iran"
      \/ /\ pass'.pc = "go" /\ (side = "iran" => tun'[n] = None \/ ~tun'[n].up)
  <2>1. CASE Create(n, LiveTun(conf[n]))
             /\ pass' = IF side = "iran" THEN [pass EXCEPT !.pc = "rule", !.rec = conf[n]]
                        ELSE [pass EXCEPT !.pc = "go", !.cur = None]
    BY <1>0, <1>1, <2>1 DEF PassSet
  <2>2. CASE NextFile /\ \E t \in BrokenTuns(conf[n]) : Create(n, t)
    BY <1>0, <2>2 DEF PassSet, NextFile, Create, BrokenTuns
  <2> QED BY <1>1, <2>1, <2>2 DEF ApplyTun
<1>6. PassOk'
  BY <1>2, <1>3, <1>5 DEF PassOk
<1>7. ASSUME NEW k \in Names
      PROVE  OwnOk(k)' /\ UpOk(k)'
  <2>1. OwnOk(k) /\ UpOk(k)
    BY DEF RulesInv
  <2>2. Own(k)' = Own(k) /\ Expected(k)' = Expected(k)
    BY <1>2 DEF Own, Expected, EditRules, FileRules, RulesOf, Busy, Idle
  <2>3. OwnOk(k)'
    BY <1>2, <2>1, <2>2 DEF OwnOk
  <2>4. k # n => tun'[k] = tun[k]
    BY <1>0, <1>1 DEF ApplyTun, Create
  <2>5. UpOk(k)'
    BY <1>2, <1>3, <1>5, <2>1, <2>4 DEF UpOk, AtRule
  <2> QED BY <2>3, <2>5
<1> QED BY <1>4, <1>6, <1>7 DEF RulesInv

LEMMA PassInstalls ==
  ASSUME HostInv, RulesInv, ApplyRules
  PROVE  RulesInv'
<1>1. PICK n \in Names, c \in Confs : n = pass.cur /\ c = pass.rec
  BY TypesAre DEF HostInv, ApplyRules, PassKnows
<1>2. /\ UNCHANGED <<side, conf, tun, cli>> /\ raced \subseteq raced' /\ pass'.pc = "go"
      /\ pass.pc = "rule" /\ (Busy(n) => n \in raced')
      /\ rules' = rules \cup Installed(n, c)
  BY <1>1, TypesAre DEF HostInv, ApplyRules, Overlap, NextFile, PassSet
<1>3. side = "iran" /\ (n \in raced \/ (~Busy(n) /\ conf[n] = c))
  BY <1>1, <1>2 DEF RulesInv, PassOk
<1>4. \A k : Busy(k)' <=> Busy(k)
  BY <1>2 DEF Busy, Idle
<1>5. CommandOk' /\ PassOk'
  BY <1>2 DEF RulesInv, CommandOk, PassOk
<1>6. ASSUME NEW k \in Names
      PROVE  OwnOk(k)' /\ UpOk(k)'
  <2>1. OwnOk(k) /\ UpOk(k)
    BY DEF RulesInv
  <2>2. Expected(k)' = Expected(k)
    BY <1>2 DEF Expected, EditRules, FileRules, RulesOf, Busy, Idle
  <2>3. CASE k = n
    <3>1. conf[n] = c /\ n \notin raced => Expected(n) = Installed(n, c)
      BY <1>3, HostAssumption DEF Expected, FileRules, RulesOf
    <3>2. Own(n)' \subseteq Own(n) \cup Installed(n, c)
      BY <1>2 DEF Own
    <3>3. OwnOk(n)'
      BY <1>2, <1>3, <2>1, <2>2, <2>3, <3>1, <3>2 DEF OwnOk
    <3> QED BY <1>2, <1>3, <2>3, <3>3 DEF UpOk
  <2>4. CASE k # n
    <3>1. Own(k)' = Own(k)
      BY <1>2, <2>4, RuleNames DEF Own
    <3>2. ~AtRule(k) /\ \A S : S \subseteq rules => S \subseteq rules'
      BY <1>1, <1>2, <2>4 DEF AtRule
    <3> QED BY <1>2, <1>4, <2>1, <2>2, <3>1, <3>2 DEF OwnOk, UpOk, AtRule
  <2> QED BY <2>3, <2>4
<1> QED BY <1>5, <1>6 DEF RulesInv

LEMMA PassEnds ==
  ASSUME HostInv, RulesInv, EndPass
  PROVE  RulesInv'
<1>1. /\ UNCHANGED <<side, conf, tun, cli>> /\ raced \subseteq raced' /\ rules \subseteq rules'
      /\ pass.pc = "go" /\ pass'.pc = "idle"
      /\ side = "iran" => rules' = rules
  BY DEF EndPass, NoPass
<1>2. CommandOk' /\ PassOk'
  BY <1>1 DEF RulesInv, CommandOk, PassOk
<1>3. ASSUME NEW n \in Names
      PROVE  OwnOk(n)' /\ UpOk(n)'
  <2>1. OwnOk(n) /\ UpOk(n) /\ (n \notin raced' => n \notin raced)
    BY <1>1 DEF RulesInv
  <2>2. Expected(n)' = Expected(n) /\ (Busy(n)' <=> Busy(n))
    BY <1>1 DEF Expected, EditRules, FileRules, RulesOf, Busy, Idle
  <2>3. n \in raced' \/ Own(n)' \subseteq Own(n) \cup Expected(n)
    <3>1. CASE side = "foreign" /\ pass.mode = "boot"
      <4>1. /\ rules' = rules \cup {AcceptRule(m, conf[m]) : m \in Configured}
            /\ raced' = IF Idle THEN raced ELSE raced \cup {cli.old, cli.new}
        BY <3>1 DEF EndPass
      <4>2. Own(n)' \subseteq Own(n) \cup FileRules(n)
        BY <3>1, <4>1, RuleNames DEF Own, FileRules, RulesOf, Configured
      <4>3. Busy(n) => n \in raced'
        BY <4>1 DEF Busy
      <4> QED BY <4>2, <4>3 DEF Expected
    <3>2. CASE ~(side = "foreign" /\ pass.mode = "boot")
      BY <3>2 DEF EndPass, Own
    <3> QED BY <3>1, <3>2
  <2> QED BY <1>1, <2>1, <2>2, <2>3 DEF OwnOk, UpOk, AtRule
<1> QED BY <1>2, <1>3 DEF RulesInv

LEMMA PassRules ==
  ASSUME HostInv, RulesInv, PassStep
  PROVE  RulesInv'
  BY PassLooks, PassBuilds, PassInstalls, PassEnds DEF PassStep

LEMMA CutRules ==
  ASSUME HostInv, RulesInv, Kill \/ Reboot
  PROVE  RulesInv'
<1>1. cli'.pc = "idle" /\ cli'.kind = "none" /\ conf' = conf /\ side' = side
  BY FinishIs DEF Kill, Reboot, CutShort, HostInv, Shape, Idle, Outcomes
<1>2. CommandOk' /\ \A n : ~Busy(n)'
  BY <1>1 DEF CommandOk, Busy, Idle
<1>3. CASE Kill
  <2>1. /\ UNCHANGED <<tun, rules, pass>> /\ raced' = raced \cup {cli.old, cli.new} /\ ~Idle
    BY <1>3 DEF Kill
  <2>2. PassOk'
    <3> SUFFICES ASSUME pass.pc = "rule"
                 PROVE  /\ side = "iran"
                        /\ pass.cur \in raced' \/ conf[pass.cur] = pass.rec
      BY <1>1, <1>2, <2>1 DEF PassOk
    <3> QED BY <2>1 DEF RulesInv, PassOk
  <2>3. ASSUME NEW n \in Names, n \notin raced'
        PROVE  OwnOk(n)' /\ UpOk(n)'
    <3>1. OwnOk(n) /\ UpOk(n) /\ ~Busy(n) /\ n \notin raced
      BY <2>1, <2>3 DEF RulesInv, Busy
    <3>2. Own(n)' = Own(n) /\ Expected(n)' = FileRules(n) /\ Expected(n) = FileRules(n)
      BY <1>1, <1>2, <2>1, <3>1 DEF Own, Expected, FileRules, RulesOf
    <3> QED BY <1>1, <2>1, <3>1, <3>2 DEF OwnOk, UpOk, AtRule
  <2> QED BY <1>2, <2>2, <2>3 DEF RulesInv, OwnOk, UpOk
<1>4. CASE Reboot
  <2>1. rules' = {} /\ tun' = [n \in Names |-> None] /\ pass'.pc = "go"
    BY <1>4 DEF Reboot, NoPass
  <2> QED BY <1>2, <2>1 DEF RulesInv, PassOk, OwnOk, UpOk, Own
<1> QED BY <1>3, <1>4

LEMMA NextRules == HostInv /\ RulesInv /\ [Next]_vars => RulesInv'
<1> SUFFICES ASSUME HostInv, RulesInv, [Next]_vars PROVE RulesInv'
  OBVIOUS
<1>1. CASE Next
  BY <1>1, RequestRules, CliRules, PassRules, CutRules DEF Next
<1>2. CASE UNCHANGED vars
  BY <1>2 DEF vars, RulesInv, CommandOk, PassOk, OwnOk, UpOk, Own, Expected, EditRules,
              FileRules, RulesOf, Busy, Idle, AtRule
<1> QED BY <1>1, <1>2

LEMMA RulesInvariance == Spec => [](HostInv /\ RulesInv)
  BY InitHolds, RulesInit, NextKeeps, NextRules, PTL DEF Spec

----------------------------------------------------------------------------
\* Between commands no rule is left of a configuration that is gone.
THEOREM RulesAreCurrent == Spec => []NoStaleRules
<1>1. ASSUME HostInv, RulesInv
      PROVE  NoStaleRules
  <2> SUFFICES ASSUME Idle, NEW r \in rules, r.name \notin raced, r.kind # "mss"
               PROVE  conf[r.name] # None /\ r \in RulesOf(r.name, conf[r.name])
    BY DEF NoStaleRules
  <2>1. r.name \in Names
    BY <1>1 DEF HostInv, HostTypeOK, RuleSet
  <2>2. r \in FileRules(r.name)
    BY <1>1, <2>1 DEF RulesInv, OwnOk, Own, Expected, Busy
  <2> QED BY <2>2 DEF FileRules
<1> QED BY <1>1, RulesInvariance, PTL

\* An IRAN connection whose interface is up has all its rules.
THEOREM UpMeansForwarding == Spec => []UpForwards
<1>1. ASSUME HostInv, RulesInv
      PROVE  UpForwards
  <2> SUFFICES ASSUME side = "iran", Idle, pass.pc = "idle",
                      NEW n \in Configured \ raced, tun[n] # None, tun[n].up
               PROVE  RulesOf(n, conf[n]) \subseteq rules
    BY DEF UpForwards
  <2>1. n \in Names /\ conf[n] # None
    BY DEF Configured
  <2> QED BY <1>1, <2>1 DEF RulesInv, UpOk, Busy, AtRule, RulesOf
<1> QED BY <1>1, RulesInvariance, PTL

=============================================================================
