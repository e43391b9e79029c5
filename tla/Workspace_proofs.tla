---------------------------- MODULE Workspace_proofs ----------------------------
(* Proofs about Workspace, for any panels, scenes and inputs and whatever the    *)
(* rules say: what becomes of a rule on its way to the browser or to the bridge  *)
(* is left unexpanded, only when which list is read matters.                     *)
(*                                                                               *)
(* The worker.  A synchronisation under way may have read lists that were        *)
(* changed since; BrowserInv says that it then owes another one (Owes).  While   *)
(* it owes none, what it has read is what is stored (Reading), and at rest the   *)
(* browser has the stored rules (Resting).                                       *)
(*                                                                               *)
(* The page.  Rules that were read to be published may be old; BridgeInv says    *)
(* that a further publication is then on its way.                                *)
EXTENDS Workspace, FiniteSetTheorems, SequenceTheorems, TLAPS

Places == {"idle", "groups", "update", "report"}

WorkerTypeOK ==
    /\ worker = [pc |-> worker.pc, install |-> worker.install, queued |-> worker.queued,
                 changes |-> worker.changes, rules |-> worker.rules, groups |-> worker.groups]
    /\ worker.pc \in Places
    /\ worker.queued \in Nat /\ worker.changes \in Nat

(* The keys that the proofs look at.                                             *)
HasKeys == {"rules", "ruleGroups", "ruleValidation", "conditionalMocks"} \subseteq DOMAIN stored

(* A synchronisation is still to begin.  The one that is running counts as       *)
(* queued until it is over.                                                      *)
Owes ==
    \/ worker.install # "done" \/ worker.changes > 0
    \/ worker.pc = "idle" /\ worker.queued > 0
    \/ worker.queued > 1

(* The report in the storage is that on the browser's rules, or was reset.       *)
ReportIsCurrent ==
    stored["ruleValidation"] \in
        {Nothing, buildRuleValidation(
                      loadRulesForRuntime(stored["rules"], stored["ruleGroups"]), browser)}

Reading ==
    /\ worker.pc # "idle" => worker.rules = stored["rules"]
    /\ worker.pc \in {"update", "report"} => worker.groups = stored["ruleGroups"]

Resting ==
    worker.pc = "idle" /\ ~BrowserRefuses(CurrentRules) => browser = CurrentRules /\ ReportIsCurrent

BrowserInv ==
    /\ WorkerTypeOK
    /\ HasKeys
    /\ worker.pc # "idle" => worker.queued > 0
    /\ worker.pc = "report" => browser = BrowserRules(worker.rules, worker.groups)
    /\ ~Owes => Reading /\ Resting

(* The values v are saved, and the page told of them.                            *)
Overwritten(v) ==
    /\ stored' = Updated(stored, v)
    /\ "ruleValidation" \in DOMAIN v => v["ruleValidation"] = Nothing
    /\ browser' = browser
    /\ page' = [page EXCEPT !.publishing =
                  IF PageHears([key \in { k \in DOMAIN v : v[k] # stored[k] } |-> v[key]])
                  THEN @ + 1 ELSE @]

PanelSaves == \E v : Overwritten(v) /\ worker' = [worker EXCEPT !.changes = @ + Told(v)]

(* The step of a panel that nobody else sees.                                    *)
Apart == UNCHANGED <<stored, worker, browser, page>>

(* Every button either saves values, among them no report, or nothing.           *)
LEMMA CommitSaves ==
  ASSUME NEW p, NEW values, NEW local, Commit(p, values, local),
         "ruleValidation" \in DOMAIN values => values["ruleValidation"] = Nothing
  PROVE  PanelSaves
<1>1. /\ stored' = Updated(stored, values)
      /\ page' = [page EXCEPT !.publishing =
                  IF PageHears([key \in { k \in DOMAIN values : values[k] # stored[k] } |-> values[key]])
                  THEN @ + 1 ELSE @]
      /\ worker' = [worker EXCEPT !.changes = @ + Told(values)]
      /\ browser' = browser
  BY DEF Commit, Save
<1> QED BY <1>1 DEF PanelSaves, Overwritten

LEMMA ListSaves ==
  ASSUME NEW p, NEW key, key # "ruleValidation", NEW list, SaveList(p, key, list)
  PROVE  PanelSaves
BY CommitSaves DEF SaveList

LEMMA RulesSave ==
  ASSUME NEW p, NEW list, NEW local, Commit(p, [rules |-> list], local)
  PROVE  PanelSaves
<1>1. "ruleValidation" \notin DOMAIN [rules |-> list]
  OBVIOUS
<1> QED BY <1>1, CommitSaves

(* All that a panel does to the others is to save.                               *)
LEMMA PanelSteps ==
  ASSUME NEW p \in Panels, Panel(p)
  PROVE  PanelSaves \/ Apart
<1>1. ASSUME Open(p) \/ LoadAppState(p) \/ Listen(p) \/ Hear(p) \/ Show(p)
      PROVE  Apart
  BY <1>1 DEF Open, LoadAppState, Listen, Hear, Show, ShowRules, ShowMocks, Draw, Set, Apart
<1>2. ASSUME EditRules(p)
      PROVE  PanelSaves
  <2>1. ASSUME NEW id \in TouchedRules, ToggleRule(p, id)
        PROVE  PanelSaves
    BY <2>1, ListSaves DEF ToggleRule
  <2>2. ASSUME CreateRule(p) \/ DuplicateRule(p) \/ DeleteRule(p)
        PROVE  PanelSaves
    BY <2>2, RulesSave DEF CreateRule, DuplicateRule, DeleteRule
  <2>3. ASSUME NEW file \in Files, ImportRules(p, file)
        PROVE  PanelSaves
    BY <2>3, ListSaves DEF ImportRules
  <2>4. ASSUME NEW input \in RuleInputs, SubmitRule(p, input)
        PROVE  PanelSaves
    BY <2>4, RulesSave DEF SubmitRule
  <2> QED BY <1>2, <2>1, <2>2, <2>3, <2>4 DEF EditRules
<1>3. ASSUME EditGroups(p)
      PROVE  PanelSaves
  <2>1. ASSUME AddGroup(p)
        PROVE  PanelSaves
    BY <2>1, ListSaves DEF AddGroup
  <2>2. ASSUME NEW id \in TouchedGroups, EditGroup(p, id)
        PROVE  PanelSaves
    BY <2>2, ListSaves DEF EditGroup
  <2> QED BY <1>3, <2>1, <2>2 DEF EditGroups
<1>4. ASSUME NEW key \in {"conditionalMocks", "responseAssertions"}, EditEntry(p, key)
      PROVE  PanelSaves
  BY <1>4, ListSaves DEF EditEntry
<1>5. ASSUME EditMocks(p)
      PROVE  PanelSaves \/ Apart
  <2>1. ASSUME NEW id \in TouchedRules, ToggleRule(p, id)
        PROVE  PanelSaves
    BY <2>1, ListSaves DEF ToggleRule
  <2>2. ASSUME NEW input \in MockInputs, SubmitMock(p, input)
        PROVE  PanelSaves
    BY <2>2, RulesSave DEF SubmitMock
  <2>3. ASSUME NEW t, FillTemplate(p, t)
        PROVE  Apart
    BY <2>3 DEF FillTemplate, Set, Apart
  <2>4. ASSUME NEW t, CreateFromTemplate(p, t)
        PROVE  PanelSaves
    BY <2>4, RulesSave DEF CreateFromTemplate
  <2>5. ASSUME AddSequenceMock(p)
        PROVE  PanelSaves
    BY <2>5, ListSaves DEF AddSequenceMock
  <2> QED BY <1>4, <1>5, <2>1, <2>2, <2>3, <2>4, <2>5 DEF EditMocks
<1>6. ASSUME EditSettings(p)
      PROVE  PanelSaves \/ Apart
  <2>1. ASSUME AddResponseAssertion(p)
        PROVE  PanelSaves
    BY <2>1, ListSaves DEF AddResponseAssertion
  <2>2. ASSUME NEW profile, ClickProfile(p, profile)
        PROVE  Apart
    BY <2>2 DEF ClickProfile, Set, Apart
  <2>3. ASSUME ResetWorkspace(p)
        PROVE  PanelSaves
    BY <2>3, CommitSaves DEF ResetWorkspace
  <2> QED BY <1>4, <1>6, <2>1, <2>2, <2>3 DEF EditSettings
<1>7. ASSUME SaveProfile(p)
      PROVE  PanelSaves
  BY <1>7, RulesSave DEF SaveProfile
<1> QED BY <1>1, <1>2, <1>3, <1>5, <1>6, <1>7 DEF Panel

LEMMA SavedValues ==
  ASSUME NEW v, Overwritten(v), HasKeys
  PROVE  /\ HasKeys'
         /\ \A key \in {"rules", "ruleGroups", "ruleValidation", "conditionalMocks"} :
               stored'[key] = IF key \in DOMAIN v THEN v[key] ELSE stored[key]
BY DEF Overwritten, HasKeys, Updated

(* A save the worker hears nothing of leaves rules and groups as they are.       *)
LEMMA ToldOfRules ==
  ASSUME NEW v, Overwritten(v), HasKeys
  PROVE  /\ Told(v) \in {0, 1}
         /\ Told(v) = 0 => stored'["rules"] = stored["rules"] /\ stored'["ruleGroups"] = stored["ruleGroups"]
         /\ stored'["ruleValidation"] \in {Nothing, stored["ruleValidation"]}
<1>1. Told(v) \in {0, 1}
  BY DEF Told
<1>2. ASSUME Told(v) = 0
      PROVE  \A key \in {"rules", "ruleGroups"} : stored'[key] = stored[key]
  <2>1. ~WorkerHears([key \in { k \in DOMAIN v : v[k] # stored[k] } |-> v[key]])
    BY <1>2 DEF Told
  <2>2. \A k \in DOMAIN v : v[k] # stored[k] => k \notin {"rules", "ruleGroups"}
    BY <2>1 DEF WorkerHears, Hears
  <2> QED BY <2>2, SavedValues
<1>3. stored'["ruleValidation"] \in {Nothing, stored["ruleValidation"]}
  BY SavedValues DEF Overwritten
<1> QED BY <1>1, <1>2, <1>3

(* A save with which the worker is told of a change makes it owe a               *)
(* synchronisation; another one changes nothing it has read.                     *)
LEMMA SavesKeepBrowserInv ==
  ASSUME BrowserInv, NEW v, Overwritten(v), NEW install,
         NEW seeding, seeding = [worker EXCEPT !.install = install],
         worker' = [seeding EXCEPT !.changes = @ + Told(v)],
         install = "done" => worker.install = "done" \/ Told(v) = 1
  PROVE  BrowserInv'
<1>1. WorkerTypeOK /\ HasKeys
  BY DEF BrowserInv
<1>2. Told(v) \in {0, 1}
  BY <1>1, ToldOfRules
<1>3. seeding = [pc |-> worker.pc, install |-> install, queued |-> worker.queued,
                 changes |-> worker.changes, rules |-> worker.rules, groups |-> worker.groups]
  BY <1>1 DEF WorkerTypeOK
<1>4. worker' = [pc |-> worker.pc, install |-> install, queued |-> worker.queued,
                 changes |-> worker.changes + Told(v), rules |-> worker.rules,
                 groups |-> worker.groups]
  BY <1>3
<1>5. /\ worker'.pc = worker.pc /\ worker'.install = install
      /\ worker'.queued = worker.queued /\ worker'.changes = worker.changes + Told(v)
      /\ worker'.rules = worker.rules /\ worker'.groups = worker.groups
      /\ worker' = [pc |-> worker'.pc, install |-> worker'.install, queued |-> worker'.queued,
                 changes |-> worker'.changes, rules |-> worker'.rules, groups |-> worker'.groups]
  BY <1>4
<1>6. WorkerTypeOK'
  BY <1>1, <1>2, <1>5 DEF WorkerTypeOK
<1>7. HasKeys'
  BY <1>1, SavedValues
<1>8. browser' = browser
  BY DEF Overwritten
<1>9. ASSUME ~Owes'
      PROVE  /\ ~Owes
             /\ stored'["rules"] = stored["rules"] /\ stored'["ruleGroups"] = stored["ruleGroups"]
             /\ stored'["ruleValidation"] \in {Nothing, stored["ruleValidation"]}
  <2>1. Told(v) = 0
    BY <1>1, <1>2, <1>5, <1>9 DEF Owes, WorkerTypeOK
  <2>2. ~Owes
    BY <1>1, <1>5, <1>9, <2>1 DEF Owes, WorkerTypeOK
  <2> QED BY <1>1, <2>1, <2>2, ToldOfRules
<1>10. ASSUME ~Owes'
      PROVE  Reading' /\ Resting'
  <2>1. Reading /\ Resting
    BY <1>9, <1>10 DEF BrowserInv
  <2>2. Reading'
    BY <1>5, <1>9, <1>10, <2>1 DEF Reading
  <2>3. CurrentRules' = CurrentRules
    BY <1>9, <1>10 DEF CurrentRules
  <2>4. ReportIsCurrent => ReportIsCurrent'
    BY <1>8, <1>9, <1>10 DEF ReportIsCurrent
  <2>5. Resting'
    BY <1>5, <1>8, <2>1, <2>3, <2>4 DEF Resting
  <2> QED BY <2>2, <2>5
<1> QED BY <1>5, <1>6, <1>7, <1>8, <1>10 DEF BrowserInv

LEMMA InitIsBrowserInv == Init => BrowserInv
<1> SUFFICES ASSUME Init PROVE BrowserInv
  OBVIOUS
<1>1. PICK scene \in Scenes :
         /\ stored = IF scene.fresh THEN [key \in Keys |-> Nothing] ELSE Seeded
         /\ worker = [Idle EXCEPT !.install = IF scene.fresh THEN "read groups" ELSE "done"]
         /\ browser = IF scene.fresh THEN <<>> ELSE BrowserRules(DEFAULT_RULES, DEFAULT_RULE_GROUPS)
  BY DEF Init
<1>2. worker = [pc |-> "idle", install |-> IF scene.fresh THEN "read groups" ELSE "done",
                queued |-> 0, changes |-> 0, rules |-> Nothing, groups |-> Nothing]
  BY <1>1 DEF Idle
<1>3. WorkerTypeOK
  BY <1>2 DEF WorkerTypeOK, Places
<1>4. HasKeys
  BY <1>1 DEF HasKeys, Seeded, Keys, PanelKeys
<1>5. ASSUME ~Owes
      PROVE  Resting
  <2>1. ~scene.fresh
    BY <1>2, <1>5 DEF Owes
  <2>2. /\ stored["rules"] = DEFAULT_RULES /\ stored["ruleGroups"] = DEFAULT_RULE_GROUPS
        /\ stored["ruleValidation"] =
              buildRuleValidation(loadRulesForRuntime(DEFAULT_RULES, DEFAULT_RULE_GROUPS),
                                  BrowserRules(DEFAULT_RULES, DEFAULT_RULE_GROUPS))
    BY <1>1, <2>1 DEF Seeded, Keys, PanelKeys
  <2>3. browser = BrowserRules(DEFAULT_RULES, DEFAULT_RULE_GROUPS)
    BY <1>1, <2>1
  <2> QED BY <2>2, <2>3 DEF Resting, CurrentRules, ReportIsCurrent
<1> QED BY <1>2, <1>3, <1>4, <1>5 DEF BrowserInv, Reading

(* Seeding, and hearing of a change: the worker owes a synchronisation before    *)
(* and after.                                                                    *)
LEMMA InstallKeepsBrowserInv ==
  ASSUME BrowserInv, SeedGroups \/ SeedRules \/ SyncAfterInstall \/ HearChange
  PROVE  BrowserInv'
<1>1. WorkerTypeOK /\ HasKeys
  BY DEF BrowserInv
<1>2. ASSUME NEW step, NEW write, NEW next, NEW key, SeedRead(step, write, next, key),
             step # "done", write # "done", next # "done"
      PROVE  BrowserInv'
  <2>1. PICK install : install # "done" /\ worker' = [worker EXCEPT !.install = install]
    BY <1>2 DEF SeedRead
  <2>2. worker' = [pc |-> worker.pc, install |-> install, queued |-> worker.queued,
                   changes |-> worker.changes, rules |-> worker.rules, groups |-> worker.groups]
    BY <1>1, <2>1 DEF WorkerTypeOK
  <2>3. stored' = stored /\ browser' = browser
    BY <1>2 DEF SeedRead
  <2>4. WorkerTypeOK' /\ Owes'
    BY <1>1, <2>1, <2>2 DEF WorkerTypeOK, Owes
  <2> QED BY <2>2, <2>3, <2>4 DEF BrowserInv, HasKeys
<1>3. ASSUME NEW step, NEW next, NEW key, NEW value, SeedWrite(step, next, key, value),
             next # "done", key # "ruleValidation"
      PROVE  BrowserInv'
  <2> DEFINE v == [k \in {key} |-> value]
  <2>1. PICK seeding : seeding = [worker EXCEPT !.install = next]
    OBVIOUS
  <2>2. worker' = [seeding EXCEPT !.changes = @ + Told(v)]
    <3>1. seeding = [pc |-> worker.pc, install |-> next, queued |-> worker.queued,
                     changes |-> worker.changes, rules |-> worker.rules, groups |-> worker.groups]
      BY <1>1, <2>1 DEF WorkerTypeOK
    <3>2. worker' = [seeding EXCEPT !.changes = worker.changes + Told(v)]
      BY <1>3, <2>1 DEF SeedWrite
    <3> QED BY <3>1, <3>2
  <2>3. Overwritten(v)
    BY <1>3 DEF SeedWrite, Save, Overwritten
  <2> QED BY <1>3, <2>1, <2>2, <2>3, SavesKeepBrowserInv
<1>4. ASSUME SyncAfterInstall
      PROVE  BrowserInv'
  <2>1. PICK queued : queued = worker.queued + 1
    OBVIOUS
  <2>2. PICK queueing : queueing = [worker EXCEPT !.queued = queued]
    OBVIOUS
  <2>3. worker' = [queueing EXCEPT !.install = "done"]
    BY <1>4, <2>1, <2>2 DEF SyncAfterInstall, QueueSync
  <2>4. worker' = [pc |-> worker.pc, install |-> "done", queued |-> queued,
                   changes |-> worker.changes, rules |-> worker.rules, groups |-> worker.groups]
    BY <1>1, <2>2, <2>3 DEF WorkerTypeOK
  <2>5. stored' = stored /\ browser' = browser
    BY <1>4 DEF SyncAfterInstall
  <2>6. WorkerTypeOK' /\ Owes'
    <3>1. queued \in Nat /\ (worker.pc # "idle" => queued > 1) /\ queued > 0
      BY <1>1, <2>1 DEF WorkerTypeOK, BrowserInv
    <3> QED BY <1>1, <2>4, <3>1 DEF WorkerTypeOK, Owes
  <2>7. queued > 0
    BY <1>1, <2>1 DEF WorkerTypeOK
  <2> QED BY <2>4, <2>5, <2>6, <2>7 DEF BrowserInv, HasKeys
<1>5. ASSUME HearChange
      PROVE  BrowserInv'
  <2>1. PICK queued, changes : queued = worker.queued + 1 /\ changes = worker.changes - 1
    OBVIOUS
  <2>2. PICK queueing : queueing = [worker EXCEPT !.queued = queued]
    OBVIOUS
  <2>3. queueing = [pc |-> worker.pc, install |-> worker.install, queued |-> queued,
                   changes |-> worker.changes, rules |-> worker.rules, groups |-> worker.groups]
    BY <1>1, <2>2 DEF WorkerTypeOK
  <2>4. worker' = [queueing EXCEPT !.changes = changes]
    <3>1. worker' = [queueing EXCEPT !.changes = queueing.changes - 1]
      BY <1>5, <2>1, <2>2 DEF HearChange, QueueSync
    <3> QED BY <2>1, <2>3, <3>1
  <2>5. worker' = [pc |-> worker.pc, install |-> worker.install, queued |-> queued,
                   changes |-> changes, rules |-> worker.rules, groups |-> worker.groups]
    BY <2>3, <2>4
  <2>6. stored' = stored /\ browser' = browser
    BY <1>5 DEF HearChange
  <2>7. queued \in Nat /\ changes \in Nat /\ (worker.pc # "idle" => queued > 1) /\ queued > 0
    BY <1>1, <1>5, <2>1 DEF WorkerTypeOK, BrowserInv, HearChange
  <2>8. WorkerTypeOK' /\ Owes'
    BY <1>1, <2>5, <2>7 DEF WorkerTypeOK, Owes
  <2> QED BY <2>5, <2>6, <2>7, <2>8 DEF BrowserInv, HasKeys
<1> QED BY <1>2, <1>3, <1>4, <1>5 DEF SeedGroups, SeedRules

(* A synchronisation that is the last one asked for reads what is stored, gives  *)
(* it to the browser and reports on it.                                          *)
LEMMA SyncKeepsBrowserInv ==
  ASSUME BrowserInv, StartSync \/ ReadGroups \/ UpdateBrowser \/ SaveValidation
  PROVE  BrowserInv'
<1>1. WorkerTypeOK /\ HasKeys
  BY DEF BrowserInv
<1>2. ASSUME StartSync
      PROVE  BrowserInv'
  <2>1. PICK starting : starting = [worker EXCEPT !.pc = "groups"]
    OBVIOUS
  <2>2. worker' = [starting EXCEPT !.rules = stored["rules"]]
    BY <1>2, <2>1 DEF StartSync
  <2>3. worker' = [pc |-> "groups", install |-> worker.install, queued |-> worker.queued,
                   changes |-> worker.changes, rules |-> stored["rules"], groups |-> worker.groups]
    BY <1>1, <2>1, <2>2 DEF WorkerTypeOK
  <2>4. stored' = stored /\ browser' = browser /\ worker.queued > 0
    BY <1>2 DEF StartSync
  <2>5. WorkerTypeOK'
    BY <1>1, <2>3 DEF WorkerTypeOK, Places
  <2>6. Reading' /\ Resting'
    BY <2>3, <2>4 DEF Reading, Resting
  <2> QED BY <1>1, <2>3, <2>4, <2>5, <2>6 DEF BrowserInv, HasKeys
<1>3. ASSUME ReadGroups
      PROVE  BrowserInv'
  <2>1. PICK reading : reading = [worker EXCEPT !.pc = "update"]
    OBVIOUS
  <2>2. worker' = [reading EXCEPT !.groups = stored["ruleGroups"]]
    BY <1>3, <2>1 DEF ReadGroups
  <2>3. worker' = [pc |-> "update", install |-> worker.install, queued |-> worker.queued,
                   changes |-> worker.changes, rules |-> worker.rules,
                   groups |-> stored["ruleGroups"]]
    BY <1>1, <2>1, <2>2 DEF WorkerTypeOK
  <2>4. stored' = stored /\ browser' = browser /\ worker.pc = "groups" /\ worker.queued > 0
    BY <1>3 DEF ReadGroups, BrowserInv
  <2>5. WorkerTypeOK'
    BY <1>1, <2>3 DEF WorkerTypeOK, Places
  <2>6. Owes' <=> Owes
    BY <2>3, <2>4 DEF Owes
  <2>7. ~Owes => Reading' /\ Resting'
    BY <2>3, <2>4 DEF Reading, Resting, BrowserInv
  <2> QED BY <1>1, <2>3, <2>4, <2>5, <2>6, <2>7 DEF BrowserInv, HasKeys
<1>4. ASSUME NEW w, w = Finished(worker), worker' = w, worker.pc \in {"update", "report"},
             HasKeys', stored'["rules"] = stored["rules"],
             stored'["ruleGroups"] = stored["ruleGroups"],
             ~Owes /\ ~BrowserRefuses(CurrentRules) => browser' = CurrentRules /\ ReportIsCurrent'
      PROVE  BrowserInv'
  <2>1. PICK queued : queued = worker.queued - 1
    OBVIOUS
  <2>2. PICK idle : idle = [worker EXCEPT !.pc = "idle"]
    OBVIOUS
  <2>3. PICK one : one = [idle EXCEPT !.queued = queued]
    OBVIOUS
  <2>4. PICK two : two = [one EXCEPT !.rules = Nothing]
    OBVIOUS
  <2>5. worker' = [two EXCEPT !.groups = Nothing]
    BY <1>4, <2>1, <2>2, <2>3, <2>4 DEF Finished
  <2>6. worker' = [pc |-> "idle", install |-> worker.install, queued |-> queued,
                   changes |-> worker.changes, rules |-> Nothing, groups |-> Nothing]
    BY <1>1, <2>2, <2>3, <2>4, <2>5 DEF WorkerTypeOK
  <2>7. queued \in Nat /\ (queued > 0 <=> worker.queued > 1)
    BY <1>1, <1>4, <2>1 DEF WorkerTypeOK, BrowserInv
  <2>8. WorkerTypeOK'
    BY <1>1, <2>6, <2>7 DEF WorkerTypeOK, Places
  <2>9. ~Owes' => ~Owes
    BY <1>4, <2>6, <2>7 DEF Owes
  <2>10. CurrentRules' = CurrentRules
    BY <1>4 DEF CurrentRules
  <2>11. ~Owes' => Reading' /\ Resting'
    BY <1>4, <2>6, <2>9, <2>10 DEF Reading, Resting
  <2> QED BY <1>4, <2>6, <2>8, <2>11 DEF BrowserInv
<1>5. ASSUME worker.pc = "update", ~Owes
      PROVE  BrowserRules(worker.rules, worker.groups) = CurrentRules
  BY <1>5 DEF BrowserInv, Reading, CurrentRules
<1>6. ASSUME UpdateBrowser
      PROVE  BrowserInv'
  <2>1. stored' = stored /\ worker.pc = "update" /\ worker.queued > 0
    BY <1>6 DEF UpdateBrowser, BrowserInv
  <2>2. CASE BrowserRefuses(BrowserRules(worker.rules, worker.groups))
    <3>1. worker' = Finished(worker)
      BY <1>6, <2>2 DEF UpdateBrowser, AfterRefusal
    <3>2. HasKeys'
      BY <1>1, <2>1 DEF HasKeys
    <3>3. ~Owes => BrowserRefuses(CurrentRules)
      BY <1>5, <2>1, <2>2
    <3> QED BY <1>4, <2>1, <3>1, <3>2, <3>3
  <2>3. CASE ~BrowserRefuses(BrowserRules(worker.rules, worker.groups))
    <3>1. worker' = [worker EXCEPT !.pc = "report"]
      BY <1>6, <2>3 DEF UpdateBrowser
    <3>2. browser' = BrowserRules(worker.rules, worker.groups)
      BY <1>6, <2>3 DEF UpdateBrowser
    <3>3. worker' = [pc |-> "report", install |-> worker.install, queued |-> worker.queued,
                     changes |-> worker.changes, rules |-> worker.rules, groups |-> worker.groups]
      BY <1>1, <3>1 DEF WorkerTypeOK
    <3>4. WorkerTypeOK'
      BY <1>1, <3>3 DEF WorkerTypeOK, Places
    <3>5. Owes' <=> Owes
      BY <2>1, <3>3 DEF Owes
    <3>6. ~Owes => Reading' /\ Resting'
      BY <2>1, <3>3 DEF Reading, Resting, BrowserInv
    <3> QED BY <1>1, <2>1, <3>2, <3>3, <3>4, <3>5, <3>6 DEF BrowserInv, HasKeys
  <2> QED BY <2>2, <2>3
<1>7. ASSUME SaveValidation
      PROVE  BrowserInv'
  <2>1. worker' = Finished(worker) /\ worker.pc = "report" /\ browser' = browser
    BY <1>7 DEF SaveValidation
  <2>2. PICK report : /\ report = buildRuleValidation(
                                      loadRulesForRuntime(worker.rules, worker.groups), browser)
                      /\ stored' = [stored EXCEPT !["ruleValidation"] = report]
    BY <1>7 DEF SaveValidation
  <2>3. HasKeys' /\ stored'["rules"] = stored["rules"] /\ stored'["ruleGroups"] = stored["ruleGroups"]
    BY <1>1, <2>2 DEF HasKeys
  <2>4. stored'["ruleValidation"] = report
    BY <1>1, <2>2 DEF HasKeys
  <2>5. ASSUME ~Owes
        PROVE  browser' = CurrentRules /\ ReportIsCurrent'
    <3>1. worker.rules = stored["rules"] /\ worker.groups = stored["ruleGroups"]
      BY <2>1, <2>5 DEF BrowserInv, Reading
    <3>2. browser = BrowserRules(worker.rules, worker.groups)
      BY <2>1 DEF BrowserInv
    <3> QED BY <2>1, <2>2, <2>3, <2>4, <3>1, <3>2 DEF CurrentRules, ReportIsCurrent
  <2> QED BY <1>4, <2>1, <2>3, <2>5
<1> QED BY <1>2, <1>3, <1>6, <1>7

LEMMA RestartKeepsBrowserInv ==
  ASSUME BrowserInv, Restart
  PROVE  BrowserInv'
<1>1. worker' = [pc |-> "idle", install |-> "done", queued |-> 1, changes |-> 0,
                 rules |-> Nothing, groups |-> Nothing]
  BY DEF Restart, QueueSync, Idle
<1>2. WorkerTypeOK' /\ Owes'
  BY <1>1 DEF WorkerTypeOK, Owes, Places
<1>3. stored' = stored
  BY DEF Restart
<1> QED BY <1>1, <1>2, <1>3 DEF BrowserInv, HasKeys

LEMMA PanelKeepsBrowserInv ==
  ASSUME BrowserInv, NEW p \in Panels, Panel(p)
  PROVE  BrowserInv'
<1>1. ASSUME PanelSaves
      PROVE  BrowserInv'
  <2>1. PICK v : Overwritten(v) /\ worker' = [worker EXCEPT !.changes = @ + Told(v)]
    BY <1>1 DEF PanelSaves
  <2>2. worker = [worker EXCEPT !.install = worker.install]
    BY DEF BrowserInv, WorkerTypeOK
  <2> QED BY <2>1, <2>2, SavesKeepBrowserInv
<1>2. ASSUME Apart
      PROVE  BrowserInv'
  BY <1>2 DEF Apart, BrowserInv, WorkerTypeOK, HasKeys, Owes, Reading, Resting, CurrentRules,
              ReportIsCurrent
<1> QED BY <1>1, <1>2, PanelSteps

LEMMA BrowserInvHolds == Spec => []BrowserInv
<1>1. BrowserInv /\ [Next]_vars => BrowserInv'
  <2> SUFFICES ASSUME BrowserInv, [Next]_vars PROVE BrowserInv'
    OBVIOUS
  <2>1. ASSUME UNCHANGED <<stored, worker, browser>>
        PROVE  BrowserInv'
    BY <2>1 DEF BrowserInv, WorkerTypeOK, HasKeys, Owes, Reading, Resting, CurrentRules,
                ReportIsCurrent
  <2>2. ASSUME OpenPage \/ Page
        PROVE  BrowserInv'
    BY <2>1, <2>2 DEF OpenPage, Page, CompleteTab, ReadRulesToPublish, PublishRules, OnPage
  <2> QED BY <2>1, <2>2, InstallKeepsBrowserInv, SyncKeepsBrowserInv, RestartKeepsBrowserInv,
             PanelKeepsBrowserInv DEF Next, Worker, vars
<1> QED BY <1>1, InitIsBrowserInv, PTL DEF Spec

(* However saves of any number of panels, events, reads, refusals and restarts   *)
(* interleave, a worker with nothing left to do has given the browser the rules  *)
(* that are stored.                                                              *)
THEOREM BrowserFollowsTheStorage == Spec => []QuietBrowserIsCurrent
<1>1. BrowserInv => QuietBrowserIsCurrent
  BY DEF BrowserInv, WorkerTypeOK, QuietBrowserIsCurrent, WorkerIsQuiet, Owes, Resting,
         ReportIsCurrent
<1> QED BY <1>1, BrowserInvHolds, PTL

-------------------------------------------------------------------------------
(* The page.                                                                     *)

ContentRules ==
    IF stored["rules"] = Nothing THEN <<>> ELSE Kept(isContentRule, stored["rules"])

ContentMocks == Parsed("conditionalMocks", stored["conditionalMocks"])

PageTypeOK ==
    /\ page = [pc |-> page.pc, publishing |-> page.publishing, rules |-> page.rules,
               bridge |-> page.bridge, scripts |-> page.scripts]
    /\ page.pc \in {"absent", "closed", "injected", "bridged"}
    /\ page.publishing \in Nat

BridgeInv ==
    /\ PageTypeOK
    /\ page.pc \notin {"injected", "bridged"} => page.publishing = 0
    /\ page.pc # "bridged" => page.bridge = Nothing
    /\ page.publishing = 0 => page.rules = Nothing
    /\ page.publishing = 1 /\ page.rules # Nothing => page.rules.at = ContentRules
    /\ page.publishing = 0 /\ page.bridge # Nothing =>
          page.bridge = [rules |-> ContentRules, mocks |-> ContentMocks]

(* A save of rules or mocks sends one more publication on its way to a page that *)
(* listens.                                                                      *)
LEMMA SavesKeepBridgeInv ==
  ASSUME BridgeInv, HasKeys, NEW v, Overwritten(v)
  PROVE  BridgeInv'
<1> DEFINE changes == [key \in { k \in DOMAIN v : v[k] # stored[k] } |-> v[key]]
<1>1. PICK publishing : publishing = IF PageHears(changes) THEN page.publishing + 1
                                     ELSE page.publishing
  OBVIOUS
<1>2. page' = [page EXCEPT !.publishing = publishing]
  BY <1>1 DEF Overwritten
<1>3. page' = [pc |-> page.pc, publishing |-> publishing, rules |-> page.rules,
               bridge |-> page.bridge, scripts |-> page.scripts]
  BY <1>2 DEF BridgeInv, PageTypeOK
<1>4. page.publishing \in Nat /\ publishing \in {page.publishing, page.publishing + 1}
  BY <1>1 DEF BridgeInv, PageTypeOK
<1>5. PageTypeOK'
  BY <1>3, <1>4 DEF BridgeInv, PageTypeOK
<1>6. CASE page.pc \notin {"injected", "bridged"}
  <2>1. page.publishing = 0 /\ page.rules = Nothing /\ page.bridge = Nothing
    BY <1>6 DEF BridgeInv
  <2>2. publishing = page.publishing
    BY <1>1, <1>6 DEF PageHears
  <2> QED BY <1>3, <1>5, <1>6, <2>1, <2>2 DEF BridgeInv
<1>7. CASE page.pc \in {"injected", "bridged"} /\ PageHears(changes)
  <2>1. publishing = page.publishing + 1
    BY <1>1, <1>7
  <2>2. publishing > 0 /\ (publishing = 1 => page.rules = Nothing)
    BY <1>4, <2>1 DEF BridgeInv
  <2> QED BY <1>3, <1>5, <1>7, <2>2 DEF BridgeInv
<1>8. CASE page.pc \in {"injected", "bridged"} /\ ~PageHears(changes)
  <2>1. publishing = page.publishing
    BY <1>1, <1>8
  <2>2. \A k \in DOMAIN v : v[k] # stored[k] => k \notin {"rules", "conditionalMocks"}
    BY <1>8 DEF PageHears, Hears
  <2>3. \A key \in {"rules", "conditionalMocks"} : stored'[key] = stored[key]
    BY <2>2, SavedValues
  <2>4. ContentRules' = ContentRules /\ ContentMocks' = ContentMocks
    BY <2>3 DEF ContentRules, ContentMocks
  <2> QED BY <1>3, <1>5, <1>8, <2>1, <2>4 DEF BridgeInv
<1> QED BY <1>6, <1>7, <1>8

(* The last publication on its way is the one that reads what is stored.         *)
LEMMA PageKeepsBridgeInv ==
  ASSUME BridgeInv, OpenPage \/ Page
  PROVE  BridgeInv'
<1>1. PageTypeOK /\ DOMAIN page = {"pc", "publishing", "rules", "bridge", "scripts"}
  BY DEF BridgeInv, PageTypeOK
<1>2. ContentRules' = ContentRules /\ ContentMocks' = ContentMocks
  BY DEF OpenPage, Page, CompleteTab, ReadRulesToPublish, PublishRules, OnPage, ContentRules,
         ContentMocks
<1>3. ASSUME OpenPage
      PROVE  BridgeInv'
  <2>1. page' = [pc |-> "injected", publishing |-> 1, rules |-> page.rules,
                 bridge |-> page.bridge, scripts |-> page.scripts]
    BY <1>1, <1>3 DEF OpenPage, OnPage, Updated
  <2>2. page.rules = Nothing /\ page.bridge = Nothing
    BY <1>3 DEF OpenPage, BridgeInv
  <2> QED BY <2>1, <2>2 DEF BridgeInv, PageTypeOK
<1>4. ASSUME CompleteTab
      PROVE  BridgeInv'
  <2>1. PICK scripts : page' = Updated(page, [pc |-> "bridged", scripts |-> scripts])
    BY <1>4 DEF CompleteTab, OnPage
  <2>2. page' = [pc |-> "bridged", publishing |-> page.publishing, rules |-> page.rules,
                 bridge |-> page.bridge, scripts |-> scripts]
    BY <1>1, <2>1 DEF Updated
  <2>3. page.bridge = Nothing
    BY <1>4 DEF CompleteTab, BridgeInv
  <2> QED BY <1>1, <1>2, <2>2, <2>3 DEF BridgeInv, PageTypeOK
<1>5. ASSUME ReadRulesToPublish
      PROVE  BridgeInv'
  <2>1. page' = Updated(page, [rules |-> [at |-> ContentRules]])
    BY <1>5 DEF ReadRulesToPublish, OnPage, ContentRules
  <2>2. page' = [pc |-> page.pc, publishing |-> page.publishing, rules |-> [at |-> ContentRules],
                 bridge |-> page.bridge, scripts |-> page.scripts]
    BY <1>1, <2>1 DEF Updated
  <2>3. page.publishing > 0
    BY <1>5 DEF ReadRulesToPublish
  <2> QED BY <1>1, <1>2, <2>2, <2>3 DEF BridgeInv, PageTypeOK
<1>6. ASSUME PublishRules
      PROVE  BridgeInv'
  <2>1. PICK publishing, bridge :
           /\ publishing = page.publishing - 1
           /\ bridge = IF page.pc # "bridged" THEN page.bridge
                       ELSE [rules |-> page.rules.at, mocks |-> ContentMocks]
           /\ page' = Updated(page, [publishing |-> publishing, rules |-> Nothing, bridge |-> bridge])
    BY <1>6 DEF PublishRules, OnPage, ContentMocks
  <2>2. page' = [pc |-> page.pc, publishing |-> publishing, rules |-> Nothing,
                 bridge |-> bridge, scripts |-> page.scripts]
    BY <1>1, <2>1 DEF Updated
  <2>3. page.rules # Nothing
    BY <1>6 DEF PublishRules
  <2>4. publishing \in Nat /\ (publishing = 0 => page.publishing = 1)
    BY <1>1, <2>1, <2>3 DEF BridgeInv, PageTypeOK
  <2>5. page.pc # "bridged" => bridge = Nothing
    BY <2>1 DEF BridgeInv
  <2>6. page.pc \in {"injected", "bridged"}
    BY <1>1, <2>3 DEF BridgeInv
  <2>7. publishing = 0 /\ bridge # Nothing => bridge = [rules |-> ContentRules, mocks |-> ContentMocks]
    BY <2>1, <2>3, <2>4, <2>5 DEF BridgeInv
  <2> QED BY <1>1, <1>2, <2>2, <2>4, <2>5, <2>6, <2>7 DEF BridgeInv, PageTypeOK
<1> QED BY <1>3, <1>4, <1>5, <1>6 DEF Page

(* However edits, reads and publications interleave, a bridge that has heard one *)
(* publication and has no other on its way has the stored rules and mocks.       *)
THEOREM BridgeFollowsTheStorage == Spec => []QuietBridgeIsCurrent
<1>1. Init => BridgeInv
  <2> SUFFICES ASSUME Init PROVE BridgeInv
    OBVIOUS
  <2>1. PICK pc \in {"closed", "absent"} : page = [NoPage EXCEPT !.pc = pc]
    BY DEF Init
  <2>2. page = [pc |-> pc, publishing |-> 0, rules |-> Nothing, bridge |-> Nothing,
                scripts |-> <<>>]
    BY <2>1 DEF NoPage
  <2> QED BY <2>2 DEF BridgeInv, PageTypeOK
<1>2. BrowserInv /\ BridgeInv /\ [Next]_vars => BridgeInv'
  <2> SUFFICES ASSUME BrowserInv, BridgeInv, [Next]_vars PROVE BridgeInv'
    OBVIOUS
  <2>0. HasKeys
    BY DEF BrowserInv
  <2>1. ASSUME UNCHANGED page, stored'["rules"] = stored["rules"],
               stored'["conditionalMocks"] = stored["conditionalMocks"]
        PROVE  BridgeInv'
    BY <2>1 DEF BridgeInv, PageTypeOK, ContentRules, ContentMocks
  <2>2. ASSUME NEW step, NEW next, NEW key, NEW value, SeedWrite(step, next, key, value),
               key # "ruleValidation"
        PROVE  BridgeInv'
    <3>1. Overwritten([k \in {key} |-> value])
      BY <2>2 DEF SeedWrite, Save, Overwritten
    <3> QED BY <2>0, <3>1, SavesKeepBridgeInv
  <2>3. ASSUME SeedGroups \/ SeedRules
        PROVE  BridgeInv'
    BY <2>1, <2>2, <2>3 DEF SeedGroups, SeedRules, SeedRead
  <2>4. ASSUME SyncAfterInstall \/ HearChange \/ StartSync \/ ReadGroups \/ UpdateBrowser
        PROVE  BridgeInv'
    BY <2>1, <2>4 DEF SyncAfterInstall, HearChange, StartSync, ReadGroups, UpdateBrowser
  <2>5. ASSUME SaveValidation
        PROVE  BridgeInv'
    BY <2>0, <2>1, <2>5 DEF SaveValidation, HasKeys
  <2>6. ASSUME Restart
        PROVE  BridgeInv'
    BY <2>6 DEF Restart, NoPage, BridgeInv, PageTypeOK
  <2>7. ASSUME NEW p \in Panels, Panel(p)
        PROVE  BridgeInv'
    BY <2>0, <2>1, <2>7, PanelSteps, SavesKeepBridgeInv DEF PanelSaves, Apart
  <2>8. ASSUME UNCHANGED vars
        PROVE  BridgeInv'
    BY <2>1, <2>8 DEF vars
  <2> QED BY <2>3, <2>4, <2>5, <2>6, <2>7, <2>8, PageKeepsBridgeInv DEF Next, Worker
<1>3. BridgeInv => QuietBridgeIsCurrent
  BY DEF BridgeInv, QuietBridgeIsCurrent, ContentRules, ContentMocks
<1> QED BY <1>1, <1>2, <1>3, BrowserInvHolds, PTL DEF Spec
-------------------------------------------------------------------------------
(* The groups.  Each list of groups there is, in the storage, in a panel or on   *)
(* its way to one, is in order (GroupsInv), because any of them may be the next  *)
(* one that is edited and saved.                                                 *)

(* A list of n groups, and one in the order of its priorities.                   *)
IsGroupList(list, n) ==
    /\ n \in Nat
    /\ list = [i \in 1..n |-> list[i]]
    /\ \A i \in 1..n : /\ list[i] = Group(list[i].id, list[i].enabled, list[i].priority)
                       /\ list[i].priority \in Int

InOrder(list) ==
    \E n : /\ IsGroupList(list, n)
           /\ \A i, j \in 1..n : i < j => list[i].priority < list[j].priority

SoundGroups(value) == value = Nothing \/ InOrder(value)

SoundEvent(e) == "ruleGroups" \in DOMAIN e => SoundGroups(e["ruleGroups"])

SoundPanel(s) ==
    /\ {"pc", "lists"} \subseteq DOMAIN s
    /\ "ruleGroups" \in DOMAIN s.lists
    /\ InOrder(s.lists["ruleGroups"])

GroupsInv ==
    /\ SoundGroups(stored["ruleGroups"])
    /\ panels = [p \in Panels |-> panels[p]]
    /\ news = [p \in Panels |-> news[p]]
    /\ \A p \in Panels : /\ SoundPanel(panels[p])
                         /\ \E E : news[p] \in Seq(E) /\ \A e \in E : SoundEvent(e)

LEMMA EmptyInOrder == InOrder(<<>>)
<1>1. IsGroupList(<<>>, 0)
  BY DEF IsGroupList
<1> QED BY <1>1 DEF InOrder

LEMMA DefaultsInOrder == InOrder(DEFAULT_RULE_GROUPS)
<1>1. IsGroupList(DEFAULT_RULE_GROUPS, 2)
  BY DEF IsGroupList, DEFAULT_RULE_GROUPS, Group
<1> QED BY <1>1 DEF InOrder, DEFAULT_RULE_GROUPS, Group

(* Numbering the groups of a list by their places puts it in order.              *)
LEMMA RenumberedInOrder ==
  ASSUME NEW list, NEW n, IsGroupList(list, n)
  PROVE  InOrder(Renumbered(list))
<1> DEFINE next == Renumbered(list)
<1>1. next = [i \in 1..n |-> [list[i] EXCEPT !.priority = i - 1]] /\ n \in Nat
  BY DEF Renumbered, IsGroupList
<1>2. \A i \in 1..n : next[i] = Group(list[i].id, list[i].enabled, i - 1)
  BY <1>1 DEF IsGroupList, Group
<1> HIDE DEF next
<1>3. ASSUME NEW i \in 1..n
      PROVE  /\ next[i] = Group(next[i].id, next[i].enabled, next[i].priority)
             /\ next[i].priority = i - 1
  <2>1. PICK at : at = i - 1
    OBVIOUS
  <2>2. next[i] = [id |-> list[i].id, enabled |-> list[i].enabled, priority |-> at]
    BY <1>2, <2>1 DEF Group
  <2> QED BY <2>1, <2>2 DEF Group
<1>4. next = [i \in 1..n |-> next[i]]
  BY <1>1
<1>5. IsGroupList(next, n)
  BY <1>1, <1>3, <1>4 DEF IsGroupList
<1>6. \A i, j \in 1..n : i < j => next[i].priority < next[j].priority
  BY <1>1, <1>3
<1>7. InOrder(next)
  BY <1>5, <1>6 DEF InOrder
<1> QED BY <1>7 DEF next

LEMMA ToggleInOrder ==
  ASSUME NEW list, InOrder(list), NEW id
  PROVE  InOrder(Toggle(list, id))
<1>1. PICK n : IsGroupList(list, n) /\ \A i, j \in 1..n : i < j => list[i].priority < list[j].priority
  BY DEF InOrder
<1> DEFINE next == Toggle(list, id)
<1>2. next = [i \in 1..n |-> IF list[i].id = id THEN [list[i] EXCEPT !.enabled = ~@] ELSE list[i]]
  BY <1>1 DEF Toggle, Change, IsGroupList
<1>3. ASSUME NEW i \in 1..n
      PROVE  \E enabled : next[i] = Group(list[i].id, enabled, list[i].priority)
  BY <1>1, <1>2 DEF IsGroupList, Group
<1>4. ASSUME NEW i \in 1..n
      PROVE  /\ next[i] = Group(next[i].id, next[i].enabled, next[i].priority)
             /\ next[i].priority = list[i].priority
  <2>1. PICK enabled : next[i] = Group(list[i].id, enabled, list[i].priority)
    BY <1>3
  <2> HIDE DEF next
  <2> QED BY <2>1 DEF Group
<1> HIDE DEF next
<1>5. next = [i \in 1..n |-> next[i]]
  BY <1>2
<1>6. IsGroupList(next, n)
  BY <1>1, <1>4, <1>5 DEF IsGroupList
<1> QED BY <1>1, <1>4, <1>6 DEF InOrder, next

LEMMA AppendedList ==
  ASSUME NEW n \in Nat, NEW list, list = [i \in 1..n |-> list[i]], NEW last
  PROVE  Append(list, last) = [i \in 1..(n + 1) |-> IF i = n + 1 THEN last ELSE list[i]]
<1>1. PICK S : last \in S /\ \A i \in 1..n : list[i] \in S
  <2>1. last \in { list[i] : i \in 1..n } \cup {last}
        /\ \A i \in 1..n : list[i] \in { list[k] : k \in 1..n } \cup {last}
    OBVIOUS
  <2> QED BY <2>1
<1>2. list \in [1..n -> S]
  BY <1>1
<1>3. list \in Seq(S) /\ Len(list) = n
  BY <1>2, SeqDef, LenProperties
<1>4. PICK next : next = Append(list, last)
  OBVIOUS
<1>5. /\ next \in Seq(S) /\ Len(next) = n + 1
      /\ \A i \in 1..n : next[i] = list[i]
      /\ next[n + 1] = last
  BY <1>1, <1>3, <1>4, AppendProperties
<1>6. next = [i \in 1..(n + 1) |-> next[i]]
  BY <1>5, LenProperties
<1>7. \A i \in 1..(n + 1) : next[i] = IF i = n + 1 THEN last ELSE list[i]
  BY <1>5
<1> QED BY <1>4, <1>6, <1>7

(* A group that is created comes after the last.                                 *)
LEMMA CreateInOrder ==
  ASSUME NEW list, InOrder(list), NEW id
  PROVE  InOrder(CreateGroup(list, id))
<1>1. PICK n : IsGroupList(list, n) /\ \A i, j \in 1..n : i < j => list[i].priority < list[j].priority
  BY DEF InOrder
<1> DEFINE priorities == { g.priority : g \in RangeOf(list) }
           priority == IF list = <<>> THEN 0 ELSE Max(priorities) + 1
           last == Group(id, TRUE, priority)
           next == Append(list, last)
<1>2. n \in Nat /\ DOMAIN list = 1..n /\ \A i \in 1..n : list[i].priority \in Int
  BY <1>1 DEF IsGroupList
<1>3. priority \in Int /\ \A i \in 1..n : list[i].priority < priority
  <2>1. CASE n = 0
    <3>1. list = <<>>
      BY <1>1, <2>1 DEF IsGroupList
    <3> QED BY <2>1, <3>1
  <2>2. CASE n > 0
    <3>1. list # <<>>
      BY <1>2, <2>2
    <3>2. priorities = { list[i].priority : i \in 1..n }
      BY <1>2 DEF RangeOf
    <3>3. list[n].priority \in priorities /\ \A y \in priorities : list[n].priority >= y
      <4>1. n \in 1..n /\ \A i \in 1..n : i < n \/ i = n
        BY <1>2, <2>2
      <4>2. \A i \in 1..n : list[n].priority >= list[i].priority
        BY <1>1, <1>2, <4>1
      <4> HIDE DEF priorities
      <4> QED BY <3>2, <4>1, <4>2
    <3>4. PICK x : x = Max(priorities)
      OBVIOUS
    <3>5. x \in priorities /\ \A y \in priorities : x >= y
      BY <3>3, <3>4 DEF Max
    <3>6. priority = x + 1
      BY <3>1, <3>4
    <3> HIDE DEF priority, priorities
    <3>7. x \in Int /\ \A i \in 1..n : list[i].priority <= x
      BY <1>2, <3>2, <3>5
    <3> QED BY <1>2, <3>6, <3>7
  <2> QED BY <1>2, <2>1, <2>2
<1> HIDE DEF priority
<1>4. next = [i \in 1..(n + 1) |-> IF i = n + 1 THEN last ELSE list[i]]
  <2>1. n \in Nat /\ list = [i \in 1..n |-> list[i]]
    BY <1>1 DEF IsGroupList
  <2> HIDE DEF last
  <2> QED BY <2>1, AppendedList
<1> HIDE DEF next
<1>5. /\ \A i \in 1..n : next[i] = list[i]
      /\ next[n + 1] = last
      /\ \A i \in 1..(n + 1) : i \in 1..n \/ i = n + 1
  <2>1. /\ n + 1 \in 1..(n + 1) /\ \A i \in 1..n : i \in 1..(n + 1) /\ i # n + 1
        /\ \A i \in 1..(n + 1) : i \in 1..n \/ i = n + 1
    BY <1>2
  <2> HIDE DEF last
  <2> QED BY <1>4, <2>1
<1>6. last = Group(last.id, last.enabled, last.priority) /\ last.priority = priority
  BY DEF Group
<1> HIDE DEF last
<1>7. IsGroupList(next, n + 1)
  <2>1. next = [i \in 1..(n + 1) |-> next[i]] /\ n + 1 \in Nat
    BY <1>2, <1>4
  <2> QED BY <1>1, <1>3, <1>5, <1>6, <2>1 DEF IsGroupList
<1>8. \A i, j \in 1..(n + 1) : i < j => next[i].priority < next[j].priority
  BY <1>1, <1>2, <1>3, <1>5, <1>6
<1>9. InOrder(next)
  BY <1>7, <1>8 DEF InOrder
<1> QED BY <1>9 DEF next, last, priority, CreateGroup

LEMMA SubsetIsCounted ==
  ASSUME NEW n \in Nat, NEW M, M \subseteq 1..n
  PROVE  IsFiniteSet(M) /\ Cardinality(M) \in Nat
<1>1. IsFiniteSet(1..n)
  BY FS_Interval
<1> QED BY <1>1, FS_Subset, FS_CardinalityType

(* The places that Without and Sorted count are taken.                           *)
LEMMA EachPlaceIsTaken ==
  ASSUME NEW M, NEW n \in Nat, M \subseteq 1..n, NEW p \in 1..Cardinality(M)
  PROVE  \E i \in M : Cardinality({ j \in M : j <= i }) = p
<1> DEFINE upTo(i) == { j \in M : j <= i }
           f == [i \in M |-> Cardinality(upTo(i))]
           T == 1..Cardinality(M)
<1>1. IsFiniteSet(M) /\ Cardinality(M) \in Nat
  BY SubsetIsCounted
<1>2. \A i \in M : /\ upTo(i) \in SUBSET M /\ i \in upTo(i) /\ IsFiniteSet(upTo(i))
                   /\ Cardinality(upTo(i)) \in Nat /\ Cardinality(upTo(i)) <= Cardinality(M)
  <2>1. \A i \in M : upTo(i) \in SUBSET M /\ i \in upTo(i)
    OBVIOUS
  <2> HIDE DEF upTo
  <2> QED BY <1>1, <2>1, FS_Subset, FS_CardinalityType
<1>3. \A i \in M : Cardinality(upTo(i)) # 0
  <2> HIDE DEF upTo
  <2> QED BY <1>2, FS_EmptySet
<1>4. f \in [M -> T]
  <2>1. \A i \in M : Cardinality(upTo(i)) \in T
    BY <1>1, <1>2, <1>3
  <2> QED BY <2>1
<1>5. ASSUME NEW i \in M, NEW j \in M, i < j
      PROVE  f[i] # f[j]
  <2>1. upTo(i) \subseteq upTo(j) /\ j \notin upTo(i)
    <3>1. M \subseteq Int
      OBVIOUS
    <3>2. \A k \in M : k <= i => k <= j
      BY <1>5, <3>1
    <3>3. ~(j <= i)
      BY <1>5, <3>1
    <3> QED BY <3>2, <3>3
  <2>2. upTo(i) # upTo(j)
    BY <1>2, <2>1
  <2> HIDE DEF upTo
  <2> QED BY <1>2, <2>1, <2>2, FS_Subset
<1>6. f \in Injection(M, T)
  <2>1. \A i, j \in M : i # j => i < j \/ j < i
    OBVIOUS
  <2> QED BY <1>4, <1>5, <2>1 DEF Injection, IsInjective
<1>7. IsFiniteSet(T) /\ Cardinality(T) = Cardinality(M)
  BY <1>1, FS_Interval
<1>8. f \in Surjection(M, T)
  BY <1>6, <1>7, FS_Injection
<1> QED BY <1>8 DEF Surjection

LEMMA WithoutIsGroupList ==
  ASSUME NEW list, InOrder(list), NEW ids
  PROVE  \E n : IsGroupList(Without(list, ids), n)
<1>1. PICK n : IsGroupList(list, n)
  BY DEF InOrder
<1> DEFINE kept == { i \in DOMAIN list : list[i].id \notin ids }
           next == Without(list, ids)
           m == Cardinality(kept)
<1>2. kept \subseteq 1..n /\ n \in Nat
  BY <1>1 DEF IsGroupList
<1>3. next = [p \in 1..m |-> list[CHOOSE i \in kept : Cardinality({ j \in kept : j <= i }) = p]]
  BY DEF Without
<1>4. m \in Nat
  BY <1>2, SubsetIsCounted
<1>5. \A p \in 1..m : \E i \in kept : Cardinality({ j \in kept : j <= i }) = p
  BY <1>2, EachPlaceIsTaken
<1> HIDE DEF kept, next, m
<1>6. \A p \in 1..m : \E i \in 1..n : next[p] = list[i]
  BY <1>2, <1>3, <1>5
<1>7. next = [p \in 1..m |-> next[p]]
  BY <1>3
<1>8. IsGroupList(next, m)
  BY <1>1, <1>4, <1>6, <1>7 DEF IsGroupList
<1> QED BY <1>8 DEF next, m

(* A list in order is sorted already.                                            *)
LEMMA SortedIsGroupList ==
  ASSUME NEW list, NEW n, IsGroupList(list, n),
         \A i, j \in 1..n : i < j => list[i].priority < list[j].priority
  PROVE  Sorted(list, LAMBDA a, b : a.priority < b.priority) = list
<1> DEFINE ahead(i) == { j \in DOMAIN list : \/ list[j].priority < list[i].priority
                                             \/ ~(list[i].priority < list[j].priority) /\ j <= i }
<1>1. n \in Nat /\ DOMAIN list = 1..n /\ \A i \in 1..n : list[i].priority \in Int
  BY DEF IsGroupList
<1>2. \A i \in 1..n : ahead(i) = 1..i
  BY <1>1
<1>3. \A i \in 1..n : Cardinality(ahead(i)) = i
  <2>1. \A i \in 1..n : Cardinality(1..i) = i
    BY <1>1, FS_Interval
  <2> HIDE DEF ahead
  <2> QED BY <1>2, <2>1
<1>4. Sorted(list, LAMBDA a, b : a.priority < b.priority)
         = [p \in 1..n |-> list[CHOOSE i \in 1..n : Cardinality(ahead(i)) = p]]
  BY <1>1 DEF Sorted
<1> HIDE DEF ahead
<1>5. \A p \in 1..n : (CHOOSE i \in 1..n : Cardinality(ahead(i)) = p) = p
  BY <1>3
<1>6. list = [i \in 1..n |-> list[i]]
  BY DEF IsGroupList
<1> QED BY <1>4, <1>5, <1>6

LEMMA MoveInOrder ==
  ASSUME NEW list, InOrder(list), NEW id \in IdsOf(list), NEW step,
         NEW next \in MoveGroup(list, id, step)
  PROVE  InOrder(next)
<1>1. PICK n : IsGroupList(list, n) /\ \A i, j \in 1..n : i < j => list[i].priority < list[j].priority
  BY DEF InOrder
<1> DEFINE sorted == Sorted(list, LAMBDA a, b : a.priority < b.priority)
           at == CHOOSE i \in DOMAIN sorted : sorted[i].id = id
           moved == [i \in DOMAIN sorted |-> CASE i = at -> sorted[at + step]
                                               [] i = at + step -> sorted[at]
                                               [] OTHER -> sorted[i]]
<1>2. sorted = list
  BY <1>1, SortedIsGroupList
<1>3. at + step \in DOMAIN sorted /\ next = Renumbered(moved)
  BY DEF MoveGroup, Refused
<1> HIDE DEF sorted
<1>4. PICK k : k = at
  OBVIOUS
<1>5. DOMAIN list = 1..n
  BY <1>1 DEF IsGroupList
<1>6. k \in 1..n /\ k + step \in 1..n
  BY <1>2, <1>3, <1>4, <1>5 DEF IdsOf, RangeOf
<1>7. moved = [i \in 1..n |-> CASE i = k -> list[k + step] [] i = k + step -> list[k]
                                 [] OTHER -> list[i]]
  BY <1>2, <1>4, <1>5
<1> HIDE DEF moved, at
<1>8. \A i \in 1..n : \E j \in 1..n : moved[i] = list[j]
  BY <1>6, <1>7
<1>9. IsGroupList(moved, n)
  BY <1>1, <1>7, <1>8 DEF IsGroupList
<1> QED BY <1>3, <1>9, RenumberedInOrder

LEMMA DeleteInOrder ==
  ASSUME NEW list, InOrder(list), NEW rules, NEW id, NEW next \in DeleteGroup(rules, list, id)
  PROVE  InOrder(next)
BY WithoutIsGroupList, RenumberedInOrder DEF DeleteGroup, Refused

(* What a save leaves.                                                           *)
LEMMA SaveKeepsGroups ==
  ASSUME GroupsInv, HasKeys, NEW values, Save(values),
         "ruleGroups" \in DOMAIN values => SoundGroups(values["ruleGroups"])
  PROVE  /\ SoundGroups(stored'["ruleGroups"])
         /\ news' = [p \in Panels |-> news'[p]]
         /\ \A p \in Panels : \E E : news'[p] \in Seq(E) /\ \A e \in E : SoundEvent(e)
<1> DEFINE changes == [key \in { k \in DOMAIN values : values[k] # stored[k] } |-> values[key]]
           told == [key \in DOMAIN changes \cap PanelKeys |-> changes[key]]
<1>1. SoundGroups(stored'["ruleGroups"])
  BY DEF Save, Updated, HasKeys, GroupsInv
<1>2. news' = [p \in Panels |-> news'[p]]
  BY DEF Save
<1>3. SoundEvent(told)
  BY DEF SoundEvent
<1>4. \A p \in Panels : news'[p] \in {<<>>, Append(news[p], told), news[p]}
  BY DEF Save
<1> HIDE DEF told
<1>5. ASSUME NEW p \in Panels
      PROVE  \E E : news'[p] \in Seq(E) /\ \A e \in E : SoundEvent(e)
  <2>1. PICK E : news[p] \in Seq(E) /\ \A e \in E : SoundEvent(e)
    BY DEF GroupsInv
  <2> DEFINE F == E \cup {told}
  <2>2. news[p] \in Seq(F) /\ <<>> \in Seq(F)
    BY <2>1, SeqMonotonic
  <2>3. Append(news[p], told) \in Seq(F)
    BY <2>2, AppendProperties
  <2>4. \A e \in F : SoundEvent(e)
    BY <1>3, <2>1
  <2> HIDE DEF F
  <2> QED BY <1>4, <2>2, <2>3, <2>4
<1> QED BY <1>1, <1>2, <1>5

LEMMA ClosedIsSound == SoundPanel(Closed)
BY EmptyInOrder DEF SoundPanel, Closed, NoLists, PanelKeys

LEMMA UpdatedPanelIsSound ==
  ASSUME NEW s, SoundPanel(s), NEW values,
         "lists" \in DOMAIN values => /\ "ruleGroups" \in DOMAIN values.lists
                                      /\ InOrder(values.lists["ruleGroups"])
  PROVE  SoundPanel(Updated(s, values))
<1> DEFINE next == Updated(s, values)
<1>1. DOMAIN next = DOMAIN s
  BY DEF Updated
<1>2. next.lists = IF "lists" \in DOMAIN values THEN values.lists ELSE s.lists
  BY DEF Updated, SoundPanel
<1> HIDE DEF next
<1>3. SoundPanel(next)
  BY <1>1, <1>2 DEF SoundPanel
<1> QED BY <1>3 DEF next

LEMMA CommitKeepsGroups ==
  ASSUME GroupsInv, HasKeys, NEW p \in Panels, NEW values, NEW local, Commit(p, values, local),
         "ruleGroups" \in DOMAIN values => SoundGroups(values["ruleGroups"]),
         "lists" \notin DOMAIN local
  PROVE  GroupsInv'
<1>1. Save(values) /\ panels' \in {[q \in Panels |-> Closed],
                                  [panels EXCEPT ![p] = Updated(panels[p], local)]}
  BY DEF Commit
<1>2. SoundPanel(Updated(panels[p], local))
  BY UpdatedPanelIsSound DEF GroupsInv
<1>3. panels' = [q \in Panels |-> panels'[q]] /\ \A q \in Panels : SoundPanel(panels'[q])
  BY <1>1, <1>2, ClosedIsSound DEF GroupsInv
<1> QED BY <1>1, <1>3, SaveKeepsGroups DEF GroupsInv

LEMMA SetKeepsGroups ==
  ASSUME GroupsInv, NEW p \in Panels, NEW values, Set(p, values),
         "lists" \in DOMAIN values => /\ "ruleGroups" \in DOMAIN values.lists
                                      /\ InOrder(values.lists["ruleGroups"])
  PROVE  GroupsInv'
<1>1. /\ panels' = [panels EXCEPT ![p] = Updated(panels[p], values)]
      /\ stored' = stored /\ news' = news
  BY DEF Set
<1>2. SoundPanel(Updated(panels[p], values))
  BY UpdatedPanelIsSound DEF GroupsInv
<1> QED BY <1>1, <1>2 DEF GroupsInv

LEMMA RulesSaveKeepsGroups ==
  ASSUME GroupsInv, HasKeys, NEW p \in Panels, NEW list, NEW local, Commit(p, [rules |-> list], local),
         "lists" \notin DOMAIN local
  PROVE  GroupsInv'
<1>1. "ruleGroups" \notin DOMAIN [rules |-> list]
  OBVIOUS
<1> QED BY <1>1, CommitKeepsGroups

LEMMA ListSaveKeepsGroups ==
  ASSUME GroupsInv, HasKeys, NEW p \in Panels, NEW key, NEW list, SaveList(p, key, list),
         key = "ruleGroups" => InOrder(list)
  PROVE  GroupsInv'
<1>1. "lists" \notin DOMAIN NoFields
  BY DEF NoFields
<1> QED BY <1>1, CommitKeepsGroups DEF SaveList, SoundGroups

LEMMA ParsedGroups ==
  ASSUME NEW value, SoundGroups(value)
  PROVE  InOrder(Parsed("ruleGroups", value))
BY EmptyInOrder DEF Parsed, SoundGroups

(* A panel opens, reads, hears and draws: its list of groups is one it was given.*)
LEMMA LookingKeepsGroups ==
  ASSUME GroupsInv, HasKeys, NEW p \in Panels,
         Open(p) \/ LoadAppState(p) \/ Listen(p) \/ Hear(p) \/ Show(p)
  PROVE  GroupsInv'
<1>1. ASSUME NEW view, Set(p, [pc |-> "loading", view |-> view])
      PROVE  GroupsInv'
  <2>1. "lists" \notin DOMAIN [pc |-> "loading", view |-> view]
    OBVIOUS
  <2> QED BY <1>1, <2>1, SetKeepsGroups
<1>2. CASE LoadAppState(p)
  <2>1. PICK lists : /\ lists = [key \in PanelKeys |-> Parsed(key, stored[key])]
                     /\ Set(p, [pc |-> "loaded", lists |-> lists])
    BY <1>2 DEF LoadAppState
  <2>2. "ruleGroups" \in DOMAIN lists /\ InOrder(lists["ruleGroups"])
    BY <2>1, ParsedGroups DEF PanelKeys, GroupsInv
  <2> QED BY <2>1, <2>2, SetKeepsGroups
<1>3. CASE Listen(p)
  <2>1. "lists" \notin DOMAIN [pc |-> "open"]
    OBVIOUS
  <2> QED BY <1>3, <2>1, SetKeepsGroups DEF Listen
<1>4. CASE Hear(p)
  <2>1. PICK E : news[p] \in Seq(E) /\ \A e \in E : SoundEvent(e)
    BY DEF GroupsInv
  <2>2. Head(news[p]) \in E /\ Tail(news[p]) \in Seq(E)
    BY <1>4, <2>1, HeadTailProperties DEF Hear
  <2>3. PICK event : event = Head(news[p])
    OBVIOUS
  <2>4. PICK heard : heard = Updated(panels[p].lists, [key \in DOMAIN event |-> Parsed(key, event[key])])
    OBVIOUS
  <2>5. /\ panels' = [panels EXCEPT ![p].lists = heard]
        /\ news' = [news EXCEPT ![p] = Tail(news[p])]
        /\ stored' = stored
    BY <1>4, <2>3, <2>4 DEF Hear
  <2>6. SoundPanel(panels[p])
    BY DEF GroupsInv
  <2>7. "ruleGroups" \in DOMAIN heard /\ InOrder(heard["ruleGroups"])
    BY <2>1, <2>2, <2>3, <2>4, <2>6, ParsedGroups DEF Updated, SoundPanel, SoundEvent
  <2>8. SoundPanel([panels[p] EXCEPT !.lists = heard])
    BY <2>6, <2>7 DEF SoundPanel
  <2> QED BY <2>1, <2>2, <2>5, <2>8 DEF GroupsInv
<1>5. ASSUME NEW view, NEW local, Draw(p, view, local), "lists" \notin DOMAIN local
      PROVE  GroupsInv'
  <2>1. PICK drawn : drawn = [panels[p] EXCEPT !.pc = "drawn", !.view = view, !.form = NoForm,
                                               !.mockForm = NoMockForm]
    OBVIOUS
  <2>2. Set(p, Updated(drawn, local))
    BY <1>5, <2>1 DEF Draw
  <2>3. SoundPanel(drawn)
    BY <2>1 DEF GroupsInv, SoundPanel
  <2>4. SoundPanel(Updated(drawn, local))
    BY <1>5, <2>3, UpdatedPanelIsSound
  <2> QED BY <2>2, <2>4, SetKeepsGroups DEF SoundPanel
<1>6. ASSUME NEW filter, NEW wanted, ShowRules(p, filter, wanted)
      PROVE  GroupsInv'
  <2>1. PICK selected, form : Draw(p, "rules", [selected |-> selected, form |-> form])
    BY <1>6 DEF ShowRules
  <2>2. "lists" \notin DOMAIN [selected |-> selected, form |-> form]
    OBVIOUS
  <2> QED BY <1>5, <2>1, <2>2
<1>7. ASSUME NEW filter, NEW wanted, ShowMocks(p, filter, wanted)
      PROVE  GroupsInv'
  <2>1. PICK selected, form : Draw(p, "mocks", [mock |-> selected, mockForm |-> form])
    BY <1>7 DEF ShowMocks
  <2>2. "lists" \notin DOMAIN [mock |-> selected, mockForm |-> form]
    OBVIOUS
  <2> QED BY <1>5, <2>1, <2>2
<1>8. CASE Show(p)
  <2>1. "lists" \notin DOMAIN NoFields
    BY DEF NoFields
  <2> QED BY <1>5, <1>6, <1>7, <1>8, <2>1 DEF Show
<1> QED BY <1>1, <1>2, <1>3, <1>4, <1>8 DEF Open

(* The buttons for groups, each from the list the panel has.                     *)
LEMMA EditsKeepGroups ==
  ASSUME GroupsInv, HasKeys, NEW p \in Panels, EditGroups(p)
  PROVE  GroupsInv'
<1>1. InOrder(GroupsOf(p))
  BY EmptyInOrder DEF GroupsOf, Known, NoLists, PanelKeys, GroupsInv, SoundPanel
<1> DEFINE groups == GroupsOf(p)
<1> HIDE DEF groups
<1>2. ASSUME NEW next, SaveList(p, "ruleGroups", next), InOrder(next)
      PROVE  GroupsInv'
  BY <1>2, ListSaveKeepsGroups
<1>3. CASE AddGroup(p)
  BY <1>1, <1>2, <1>3, CreateInOrder DEF AddGroup
<1>4. ASSUME NEW id \in IdsOf(GroupsOf(p)), EditGroup(p, id)
      PROVE  GroupsInv'
  <2>1. ASSUME NEW step, NEW next \in MoveGroup(GroupsOf(p), id, step), SaveList(p, "ruleGroups", next)
        PROVE  GroupsInv'
    BY <1>1, <1>2, <2>1, MoveInOrder
  <2>2. ASSUME NEW next \in DeleteGroup(RulesOf(p), GroupsOf(p), id), SaveList(p, "ruleGroups", next)
        PROVE  GroupsInv'
    BY <1>1, <1>2, <2>2, DeleteInOrder
  <2>3. ASSUME SaveList(p, "ruleGroups", Toggle(GroupsOf(p), id)) \/ SaveList(p, "ruleGroups", GroupsOf(p))
        PROVE  GroupsInv'
    BY <1>1, <1>2, <2>3, ToggleInOrder
  <2> QED BY <1>4, <2>1, <2>2, <2>3 DEF EditGroup
<1> QED BY <1>3, <1>4 DEF EditGroups, EditGroup

(* The other buttons save no groups, or reset them.                              *)
LEMMA OtherEditsKeepGroups ==
  ASSUME GroupsInv, HasKeys, NEW p \in Panels,
         EditRules(p) \/ EditMocks(p) \/ EditSettings(p) \/ SaveProfile(p)
  PROVE  GroupsInv'
<1>1. /\ \A a : "lists" \notin DOMAIN [selected |-> a]
      /\ \A a : "lists" \notin DOMAIN [form |-> a]
      /\ \A a : "lists" \notin DOMAIN [mock |-> a]
      /\ \A a : "lists" \notin DOMAIN [mockForm |-> a]
      /\ \A a : "lists" \notin DOMAIN [task |-> a]
      /\ "lists" \notin DOMAIN NoFields
  BY DEF NoFields
<1>2. ASSUME NEW key, NEW list, SaveList(p, key, list), key # "ruleGroups"
      PROVE  GroupsInv'
  BY <1>2, ListSaveKeepsGroups
<1>3. ASSUME NEW id, ToggleRule(p, id)
      PROVE  GroupsInv'
  BY <1>2, <1>3 DEF ToggleRule
<1>4. CASE EditRules(p)
  <2>1. ASSUME NEW input, SubmitRule(p, input)
        PROVE  GroupsInv'
    BY <1>1, <2>1, RulesSaveKeepsGroups DEF SubmitRule
  <2>2. ASSUME NEW file, ImportRules(p, file)
        PROVE  GroupsInv'
    BY <1>2, <2>2 DEF ImportRules
  <2>3. ASSUME CreateRule(p) \/ DuplicateRule(p) \/ DeleteRule(p)
        PROVE  GroupsInv'
    BY <1>1, <2>3, RulesSaveKeepsGroups DEF CreateRule, DuplicateRule, DeleteRule
  <2> QED BY <1>3, <1>4, <2>1, <2>2, <2>3 DEF EditRules
<1>5. ASSUME NEW key \in {"conditionalMocks", "responseAssertions"}, EditEntry(p, key)
      PROVE  GroupsInv'
  BY <1>2, <1>5 DEF EditEntry
<1>6. CASE EditMocks(p)
  <2>1. ASSUME NEW input, SubmitMock(p, input)
        PROVE  GroupsInv'
    BY <1>1, <2>1, RulesSaveKeepsGroups DEF SubmitMock
  <2>2. ASSUME NEW t, FillTemplate(p, t)
        PROVE  GroupsInv'
    BY <1>1, <2>2, SetKeepsGroups DEF FillTemplate
  <2>3. ASSUME NEW t, CreateFromTemplate(p, t)
        PROVE  GroupsInv'
    BY <1>1, <2>3, RulesSaveKeepsGroups DEF CreateFromTemplate
  <2>4. ASSUME AddSequenceMock(p)
        PROVE  GroupsInv'
    BY <1>2, <2>4 DEF AddSequenceMock
  <2> QED BY <1>3, <1>5, <1>6, <2>1, <2>2, <2>3, <2>4 DEF EditMocks
<1>7. CASE EditSettings(p)
  <2>1. ASSUME AddResponseAssertion(p)
        PROVE  GroupsInv'
    BY <1>2, <2>1 DEF AddResponseAssertion
  <2>2. ASSUME NEW profile, ClickProfile(p, profile)
        PROVE  GroupsInv'
    BY <1>1, <2>2, SetKeepsGroups DEF ClickProfile
  <2>3. ASSUME ResetWorkspace(p)
        PROVE  GroupsInv'
    <3>1. SoundGroups([key \in Keys |-> Nothing]["ruleGroups"])
      BY DEF Keys, PanelKeys, SoundGroups
    <3> QED BY <1>1, <2>3, <3>1, CommitKeepsGroups DEF ResetWorkspace
  <2> QED BY <1>5, <1>7, <2>1, <2>2, <2>3 DEF EditSettings
<1>8. CASE SaveProfile(p)
  BY <1>1, <1>8, RulesSaveKeepsGroups DEF SaveProfile
<1> QED BY <1>4, <1>6, <1>7, <1>8

LEMMA SeedingKeepsGroups ==
  ASSUME GroupsInv, HasKeys, SeedGroups \/ SeedRules
  PROVE  GroupsInv'
<1>1. ASSUME NEW step, NEW write, NEW next, NEW key, SeedRead(step, write, next, key)
      PROVE  GroupsInv'
  BY <1>1 DEF SeedRead, GroupsInv
<1>2. ASSUME NEW step, NEW next, NEW key, NEW value, SeedWrite(step, next, key, value),
             SoundEvent([k \in {key} |-> value])
      PROVE  GroupsInv'
  <2>1. Save([k \in {key} |-> value]) /\ panels' = panels
    BY <1>2 DEF SeedWrite
  <2> QED BY <1>2, <2>1, SaveKeepsGroups DEF GroupsInv, SoundEvent
<1>3. SoundEvent([k \in {"ruleGroups"} |-> DEFAULT_RULE_GROUPS])
  BY DefaultsInOrder DEF SoundEvent, SoundGroups
<1>4. SoundEvent([k \in {"rules"} |-> DEFAULT_RULES])
  BY DEF SoundEvent
<1>5. CASE SeedGroups
  BY <1>1, <1>2, <1>3, <1>5 DEF SeedGroups
<1>6. CASE SeedRules
  BY <1>1, <1>2, <1>4, <1>6 DEF SeedRules
<1> QED BY <1>5, <1>6

(* Any number of panels may edit the groups from lists they read before others   *)
(* saved theirs, and hear of changes late: the stored list stays in the order of *)
(* its priorities.                                                               *)
THEOREM GroupsAreOrdered == Spec => []GroupsStayOrdered
<1>1. Init => GroupsInv
  <2> SUFFICES ASSUME Init PROVE GroupsInv
    OBVIOUS
  <2>1. SoundGroups(stored["ruleGroups"])
    BY DefaultsInOrder DEF Init, Seeded, Keys, PanelKeys, SoundGroups
  <2>2. panels = [p \in Panels |-> Closed] /\ news = [p \in Panels |-> <<>>]
    BY DEF Init
  <2>3. <<>> \in Seq({})
    BY EmptySeq
  <2> QED BY <2>1, <2>2, <2>3, ClosedIsSound DEF GroupsInv
<1>2. BrowserInv /\ GroupsInv /\ [Next]_vars => GroupsInv'
  <2> SUFFICES ASSUME BrowserInv, GroupsInv, [Next]_vars PROVE GroupsInv'
    OBVIOUS
  <2>1. HasKeys
    BY DEF BrowserInv
  <2>2. ASSUME UNCHANGED <<panels, news>>, stored'["ruleGroups"] = stored["ruleGroups"]
        PROVE  GroupsInv'
    BY <2>2 DEF GroupsInv
  <2>3. ASSUME SeedGroups \/ SeedRules
        PROVE  GroupsInv'
    BY <2>1, <2>3, SeedingKeepsGroups
  <2>4. ASSUME SyncAfterInstall \/ HearChange \/ StartSync \/ ReadGroups \/ UpdateBrowser
        PROVE  GroupsInv'
    BY <2>2, <2>4 DEF SyncAfterInstall, HearChange, StartSync, ReadGroups, UpdateBrowser
  <2>5. ASSUME SaveValidation
        PROVE  GroupsInv'
    BY <2>1, <2>2, <2>5 DEF SaveValidation, HasKeys
  <2>6. ASSUME Restart
        PROVE  GroupsInv'
    <3>1. /\ panels' = [p \in Panels |-> Closed] /\ news' = [p \in Panels |-> <<>>]
          /\ stored' = stored
      BY <2>6 DEF Restart
    <3>2. <<>> \in Seq({})
      BY EmptySeq
    <3>3. \A p \in Panels : news'[p] \in Seq({}) /\ SoundPanel(panels'[p])
      BY <3>1, <3>2, ClosedIsSound
    <3>4. \A p \in Panels : \E E : news'[p] \in Seq(E) /\ \A e \in E : SoundEvent(e)
      BY <3>3
    <3>5. panels' = [p \in Panels |-> panels'[p]] /\ news' = [p \in Panels |-> news'[p]]
      BY <3>1
    <3>6. SoundGroups(stored'["ruleGroups"])
      BY <3>1 DEF GroupsInv
    <3> QED BY <3>3, <3>4, <3>5, <3>6 DEF GroupsInv
  <2>7. ASSUME NEW p \in Panels, Panel(p)
        PROVE  GroupsInv'
    BY <2>1, <2>7, LookingKeepsGroups, EditsKeepGroups, OtherEditsKeepGroups DEF Panel
  <2>8. ASSUME OpenPage \/ Page
        PROVE  GroupsInv'
    BY <2>2, <2>8 DEF OpenPage, Page, CompleteTab, ReadRulesToPublish, PublishRules, OnPage
  <2> QED BY <2>2, <2>3, <2>4, <2>5, <2>6, <2>7, <2>8 DEF Next, Worker, vars
<1>3. GroupsInv => GroupsStayOrdered
  <2>1. InOrder(<<>>)
    BY EmptyInOrder
  <2>2. GroupsInv => InOrder(readRuleGroups(stored["ruleGroups"]))
    BY <2>1 DEF GroupsInv, SoundGroups, readRuleGroups
  <2> QED BY <2>2 DEF GroupsStayOrdered, InOrder, IsGroupList
<1> QED BY <1>1, <1>2, <1>3, BrowserInvHolds, PTL DEF Spec
===============================================================================
