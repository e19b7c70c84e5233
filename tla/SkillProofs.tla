----------------------------- MODULE SkillProofs -----------------------------
(***************************************************************************)
(* AnswerIsTrue and NothingVanishes hold for any number of sessions, calls *)
(* and faults, whatever packages are planned: the proofs do not look into  *)
(* them.  PublishedIsPlanned is about the packages; it rests on            *)
(* EditedIsSubstituted, which shows for every text and every set of        *)
(* replacements that the edits of update_skill, made one after the other,  *)
(* are the substitution of all of them at once.                            *)
(***************************************************************************)
EXTENDS SkillInv, TLAPS, WellFoundedInduction, SequenceTheorems, FiniteSetTheorems

-----------------------------------------------------------------------------
(***************************************************************************)
(* How a call moves                                                        *)
(***************************************************************************)
\* Session s is at pc with its identifier, the others are where they were
Moved(s, pc) ==
  /\ DOMAIN call' = Sessions
  /\ DOMAIN call'[s] = {"pc", "id", "input", "todo", "read", "base", "files"}
  /\ call'[s].pc = pc /\ call'[s].id = call[s].id
  /\ \A t \in Sessions : t # s => call'[t] = call[t]

LEMMA ToMoves == ASSUME TypeOK, NEW s \in Sessions, NEW pc, To(s, pc) PROVE Moved(s, pc)
BY DEF TypeOK, To, Moved

LEMMA ReturnMoves ==
  ASSUME TypeOK, NEW s \in Sessions, NEW how, Return(s, how)
  PROVE  /\ DOMAIN call' = Sessions /\ call'[s] = NoCall
         /\ \A t \in Sessions : t # s => call'[t] = call[t]
         /\ answer' = [answer EXCEPT ![call[s].id] = how]
BY DEF TypeOK, Return

LEMMA NoCallType ==
  /\ DOMAIN NoCall = {"pc", "id", "input", "todo", "read", "base", "files"} /\ NoCall.pc = "idle"
BY DEF NoCall

\* A call goes on; if it published its package, its clean-up comes next
LEMMA MoveCalls ==
  ASSUME TypeOK, Calls, AnswerIsTrue, NEW s \in Sessions, Active(s), answer' = answer,
         NEW pc \in {"load", "walk", "lstat", "put", "check", "checkwalk", "move", "publish", "rollback", "cleanup"},
         Moved(s, pc),
         \/ published' = published /\ pc # "cleanup" /\ call[s].pc # "cleanup"
         \/ published' = published \cup {call[s].id} /\ pc = "cleanup"
  PROVE  TypeOK' /\ Calls' /\ AnswerIsTrue'
<1>1. call[s].id \in DOMAIN answer /\ answer[call[s].id] = "none" BY DEF Calls
<1>2. DOMAIN answer = 1 .. Len(answer) /\ Len(answer) \in Nat BY DEF TypeOK
<1>3. call[s].id \in Nat /\ call[s].id <= Len(answer) BY <1>1, <1>2
<1>4. TypeOK' BY <1>3 DEF TypeOK, Moved
<1>5. \A t \in Sessions : /\ t # s => (Active(t)' <=> Active(t)) /\ call'[t] = call[t]
                          /\ call'[t].id = call[t].id
                          /\ t = s => Active(t)'
  BY DEF Active, Moved
<1>6. \A t \in Sessions : Active(t)' =>
        /\ call'[t].id \in DOMAIN answer' /\ answer'[call'[t].id] = "none"
        /\ call'[t].id \in published' <=> call'[t].pc = "cleanup"
  <2> SUFFICES ASSUME NEW t \in Sessions, Active(t)'
               PROVE  /\ call'[t].id \in DOMAIN answer' /\ answer'[call'[t].id] = "none"
                      /\ call'[t].id \in published' <=> call'[t].pc = "cleanup"
    OBVIOUS
  <2>1. CASE t = s BY <1>1, <2>1 DEF Calls, Moved
  <2>2. CASE t # s
    <3>1. Active(t) /\ call'[t] = call[t] BY <1>5, <2>2
    <3>2. call[t].id # call[s].id BY <2>2, <3>1 DEF Calls
    <3> QED BY <3>1, <3>2 DEF Calls
  <2> QED BY <2>1, <2>2
<1>7. \A t, u \in Sessions : Active(t)' /\ Active(u)' /\ call'[t].id = call'[u].id => t = u
  BY <1>5 DEF Calls
<1>8. \A id \in published' : id <= Len(answer') BY <1>3 DEF Calls
<1>9. Calls' BY <1>6, <1>7, <1>8 DEF Calls
<1>10. AnswerIsTrue' BY <1>1 DEF AnswerIsTrue
<1> QED BY <1>4, <1>9, <1>10

\* A call answers: a success if its package has been published
LEMMA ReturnCalls ==
  ASSUME TypeOK, Calls, AnswerIsTrue, NEW s \in Sessions, Active(s),
         NEW how \in {"ok", "error"}, Return(s, how),
         \/ how = "error" /\ call[s].pc # "cleanup" /\ published' = published
         \/ how = "ok" /\ published' = published \cup {call[s].id}
  PROVE  TypeOK' /\ Calls' /\ AnswerIsTrue'
<1>1. call[s].id \in DOMAIN answer /\ answer[call[s].id] = "none"
      /\ (call[s].id \in published <=> call[s].pc = "cleanup")
  BY DEF Calls
<1>2. DOMAIN answer = 1 .. Len(answer) /\ Len(answer) \in Nat BY DEF TypeOK
<1>3. call[s].id \in Nat /\ call[s].id <= Len(answer) BY <1>1, <1>2
<1>4. /\ DOMAIN call' = Sessions /\ call'[s] = NoCall
      /\ \A t \in Sessions : t # s => call'[t] = call[t]
      /\ answer' = [answer EXCEPT ![call[s].id] = how]
  BY ReturnMoves
<1>5. /\ answer' \in Seq({"none", "ok", "error"}) /\ DOMAIN answer' = DOMAIN answer
      /\ Len(answer') = Len(answer) /\ answer'[call[s].id] = how
      /\ \A id \in DOMAIN answer : id # call[s].id => answer'[id] = answer[id]
  BY <1>1, <1>4 DEF TypeOK
<1>6. TypeOK'
  <2>1. \A t \in Sessions :
          /\ DOMAIN call'[t] = {"pc", "id", "input", "todo", "read", "base", "files"}
          /\ call'[t].pc \in {"idle", "load", "walk", "lstat", "put", "check", "checkwalk", "move",
                             "publish", "rollback", "cleanup"}
    BY <1>4, NoCallType DEF TypeOK
  <2>2. published' \in SUBSET Nat BY <1>3 DEF TypeOK
  <2> QED BY <1>4, <1>5, <2>1, <2>2 DEF TypeOK
<1>7. \A t \in Sessions : Active(t)' => t # s /\ Active(t) /\ call'[t] = call[t]
  BY <1>4 DEF Active, NoCall
<1>8. \A t \in Sessions : Active(t)' => call[t].id # call[s].id BY <1>7 DEF Calls
<1>9. Calls'
  <2>1. \A t \in Sessions : Active(t)' =>
          /\ call'[t].id \in DOMAIN answer' /\ answer'[call'[t].id] = "none"
          /\ call'[t].id \in published' <=> call'[t].pc = "cleanup"
    BY <1>5, <1>7, <1>8 DEF Calls
  <2>2. \A t, u \in Sessions : Active(t)' /\ Active(u)' /\ call'[t].id = call'[u].id => t = u
    BY <1>7 DEF Calls
  <2>3. \A id \in published' : id <= Len(answer') BY <1>3, <1>5 DEF Calls
  <2> QED BY <2>1, <2>2, <2>3 DEF Calls
<1>10. AnswerIsTrue' BY <1>1, <1>5 DEF AnswerIsTrue
<1> QED BY <1>6, <1>9, <1>10

\* No backup is lost: nothing is taken, or the skill is at its name
LEMMA KeptAsItWas ==
  ASSUME Kept, backups' = backups, skill' = skill, published' = published \/ skill # Absent,
         \A t \in Sessions : call'[t].pc = "cleanup" => call[t].pc = "cleanup" /\ call'[t].id = call[t].id
  PROVE  Kept'
BY DEF Kept, ToBeRemoved

LEMMA KeptAtItsName ==
  ASSUME Kept, backups' \subseteq backups, skill' # Absent PROVE Kept'
BY DEF Kept

-----------------------------------------------------------------------------
(***************************************************************************)
(* Every step keeps IInv                                                   *)
(***************************************************************************)
LEMMA InitIInv == ASSUME Init PROVE IInv
<1>1. TypeOK BY NoCallType DEF Init, TypeOK
<1>2. \A s \in Sessions : ~Active(s) BY NoCallType DEF Init, Active
<1>3. Calls BY <1>2 DEF Init, Calls
<1>4. AnswerIsTrue /\ Kept BY DEF Init, AnswerIsTrue, Kept
<1> QED BY <1>1, <1>3, <1>4 DEF IInv

\* A new call takes the next identifier, or is refused at once
LEMMA BeginKeeps ==
  ASSUME IInv, NEW s \in Sessions, NEW input \in Inputs, Begin(s, input)
  PROVE  IInv'
<1> USE DEF IInv
<1>1. DOMAIN answer = 1 .. Len(answer) /\ Len(answer) \in Nat BY DEF TypeOK
<1>2. PICK how \in {"none", "error"} :
        /\ answer' = Append(answer, how)
        /\ \/ how = "error" /\ call' = call
           \/ /\ how = "none"
              /\ call' = [call EXCEPT ![s] =
                            [NoCall EXCEPT !.pc = "load", !.id = Len(answer) + 1, !.input = input]]
  BY DEF Begin
<1>3. /\ answer' \in Seq({"none", "ok", "error"}) /\ Len(answer') = Len(answer) + 1
      /\ answer'[Len(answer) + 1] = how /\ \A id \in DOMAIN answer : answer'[id] = answer[id]
      /\ DOMAIN answer' = 1 .. Len(answer) + 1
  BY <1>1, <1>2 DEF TypeOK
<1>4. published' = published /\ skill' = skill /\ backups' = backups BY DEF Begin, fileVars
<1>5. Len(answer) + 1 \notin published BY <1>1 DEF Calls, TypeOK
<1>6. AnswerIsTrue'
  <2>1. \A id \in DOMAIN answer' : id \in DOMAIN answer \/ id = Len(answer) + 1 BY <1>1, <1>3
  <2> QED BY <1>2, <1>3, <1>4, <1>5, <2>1 DEF AnswerIsTrue
<1>7. \A id \in published' : id <= Len(answer') BY <1>1, <1>3, <1>4 DEF Calls, TypeOK
<1>8. \A id \in DOMAIN answer : id \in DOMAIN answer' /\ id # Len(answer) + 1 BY <1>1, <1>3
<1>9. CASE call' = call
  <2>1. TypeOK' BY <1>3, <1>4, <1>9 DEF TypeOK
  <2>2. Calls' BY <1>3, <1>4, <1>7, <1>8, <1>9 DEF Calls, Active
  <2>3. Kept' BY <1>4, <1>9, KeptAsItWas
  <2> QED BY <1>6, <2>1, <2>2, <2>3
<1>10. CASE call' = [call EXCEPT ![s] = [NoCall EXCEPT !.pc = "load", !.id = Len(answer) + 1, !.input = input]]
            /\ how = "none"
  <2> DEFINE new == [NoCall EXCEPT !.pc = "load", !.id = Len(answer) + 1, !.input = input]
  <2>1. /\ DOMAIN new = {"pc", "id", "input", "todo", "read", "base", "files"}
        /\ new.pc = "load" /\ new.id = Len(answer) + 1
    BY DEF NoCall
  <2>2. DOMAIN call' = Sessions /\ call'[s] = new /\ \A t \in Sessions : t # s => call'[t] = call[t]
    BY <1>10 DEF TypeOK
  <2> HIDE DEF new
  <2>3. TypeOK'
    <3>1. \A t \in Sessions :
            /\ DOMAIN call'[t] = {"pc", "id", "input", "todo", "read", "base", "files"}
            /\ call'[t].pc \in {"idle", "load", "walk", "lstat", "put", "check", "checkwalk", "move",
                               "publish", "rollback", "cleanup"}
      BY <2>1, <2>2 DEF TypeOK
    <3> QED BY <1>3, <1>4, <2>2, <3>1 DEF TypeOK
  <2>4. \A t \in Sessions : Active(t)' => (t = s /\ call'[t] = new) \/ (t # s /\ Active(t) /\ call'[t] = call[t])
    BY <2>2 DEF Active
  <2>5. Calls'
    <3>1. \A t \in Sessions : Active(t)' =>
            /\ call'[t].id \in DOMAIN answer' /\ answer'[call'[t].id] = "none"
            /\ call'[t].id \in published' <=> call'[t].pc = "cleanup"
      <4> SUFFICES ASSUME NEW t \in Sessions, Active(t)'
                   PROVE  /\ call'[t].id \in DOMAIN answer' /\ answer'[call'[t].id] = "none"
                          /\ call'[t].id \in published' <=> call'[t].pc = "cleanup"
        OBVIOUS
      <4>1. CASE t = s /\ call'[t] = new
        <5>1. Len(answer) + 1 \in DOMAIN answer' BY <1>1, <1>3
        <5> QED BY <1>3, <1>4, <1>5, <1>10, <2>1, <4>1, <5>1
      <4>2. CASE t # s /\ Active(t) /\ call'[t] = call[t] BY <1>3, <1>4, <1>8, <4>2 DEF Calls
      <4> QED BY <2>4, <4>1, <4>2
    <3>2. \A t \in Sessions : Active(t) => call[t].id # Len(answer) + 1 BY <1>8 DEF Calls
    <3>3. \A t, u \in Sessions : Active(t)' /\ Active(u)' /\ call'[t].id = call'[u].id => t = u
      BY <2>1, <2>4, <3>2 DEF Calls
    <3> QED BY <1>7, <3>1, <3>3 DEF Calls
  <2>6. Kept'
    <3>1. \A t \in Sessions : call'[t].pc = "cleanup" => call[t].pc = "cleanup" /\ call'[t].id = call[t].id
      BY <2>1, <2>2
    <3> QED BY <1>4, <3>1, KeptAsItWas
  <2> QED BY <1>6, <2>3, <2>5, <2>6
<1> QED BY <1>2, <1>9, <1>10

\* Steps that read, plan and compare: the call goes on or ends with an error
LEMMA CallGoesOn ==
  ASSUME IInv, NEW s \in Sessions, Active(s), call[s].pc # "cleanup",
         UNCHANGED <<skill, backups, published>>,
         \/ /\ answer' = answer
            /\ \E pc \in {"load", "walk", "lstat", "put", "check", "checkwalk", "move", "publish", "rollback"} :
                 Moved(s, pc)
         \/ Return(s, "error")
  PROVE  IInv'
<1> USE DEF IInv
<1>1. CASE Return(s, "error")
  <2>1. \A t \in Sessions : call'[t].pc = "cleanup" => call[t].pc = "cleanup" /\ call'[t].id = call[t].id
    BY <1>1, ReturnMoves, NoCallType
  <2> QED BY <1>1, <2>1, ReturnCalls, KeptAsItWas
<1>2. ASSUME answer' = answer,
             NEW pc \in {"load", "walk", "lstat", "put", "check", "checkwalk", "move", "publish", "rollback"},
             Moved(s, pc)
      PROVE  IInv'
  <2>1. \A t \in Sessions : call'[t].pc = "cleanup" => call[t].pc = "cleanup" /\ call'[t].id = call[t].id
    BY <1>2 DEF Moved
  <2> QED BY <1>2, <2>1, MoveCalls, KeptAsItWas
<1> QED BY <1>1, <1>2

LEMMA PlanKeeps ==
  ASSUME IInv, NEW s \in Sessions,
         Refuse(s) \/ Load(s) \/ Prepare(s) \/ Lstat(s) \/ Check(s)
  PROVE  IInv'
<1> USE DEF IInv, fileVars
<1>1. UNCHANGED <<skill, backups, published>>
  BY DEF Refuse, Load, Prepare, Lstat, Check, ListFiles, ReadFile
<1>2. call[s].pc \in {"load", "walk", "check", "checkwalk", "lstat"}
  BY DEF Refuse, Load, Prepare, Lstat, Check, ListFiles, ReadFile, Loaded
<1>3. Active(s) /\ call[s].pc # "cleanup" BY <1>2 DEF Active
<1>4. CASE Refuse(s) BY <1>1, <1>3, <1>4, CallGoesOn DEF Refuse
<1>5. ASSUME NEW at, NEW next \in {"walk", "checkwalk"},
             ListFiles(s, at, next, NotThere(s)) \/ ListFiles(s, at, next, Return(s, "error"))
      PROVE  IInv'
  <2>1. CASE Return(s, "error") BY <1>1, <1>3, <2>1, CallGoesOn
  <2>2. CASE To(s, "lstat") /\ answer' = answer BY <1>1, <1>3, <2>2, ToMoves, CallGoesOn
  <2>3. CASE call' = [call EXCEPT ![s].pc = next, ![s].todo = DOMAIN skill.files, ![s].read = <<>>]
             /\ answer' = answer
    <3>1. Moved(s, next) BY <2>3 DEF TypeOK, Moved
    <3> QED BY <1>1, <1>3, <1>5, <2>3, <3>1, CallGoesOn
  <2> QED BY <1>5, <2>1, <2>2, <2>3 DEF ListFiles, NotThere
<1>6. ASSUME NEW at \in {"walk", "checkwalk"},
             ReadFile(s, at, NotThere(s)) \/ ReadFile(s, at, Return(s, "error"))
      PROVE  IInv'
  <2>1. CASE Return(s, "error") BY <1>1, <1>3, <2>1, CallGoesOn
  <2>2. CASE To(s, "lstat") /\ answer' = answer BY <1>1, <1>3, <2>2, ToMoves, CallGoesOn
  <2>3. ASSUME answer' = answer, NEW todo, NEW read,
               call' = [call EXCEPT ![s].todo = todo, ![s].read = read]
        PROVE  IInv'
    <3>1. Moved(s, call[s].pc) BY <2>3 DEF TypeOK, Moved
    <3> QED BY <1>1, <1>2, <1>3, <2>3, <3>1, CallGoesOn
  <2> QED BY <1>6, <2>1, <2>2, <2>3 DEF ReadFile, NotThere
<1>7. CASE Prepare(s)
  <2>1. CASE Return(s, "error") BY <1>1, <1>3, <2>1, CallGoesOn
  <2>2. ASSUME NEW base, NEW files, answer' = answer,
               call' = [call EXCEPT ![s].pc = "check", ![s].base = base, ![s].files = files]
        PROVE  IInv'
    <3>1. Moved(s, "check") BY <2>2 DEF TypeOK, Moved
    <3> QED BY <1>1, <1>3, <2>2, <3>1, CallGoesOn
  <2> QED BY <1>7, <2>1, <2>2 DEF Prepare
<1>8. CASE Lstat(s)
  <2>1. CASE Return(s, "error") BY <1>1, <1>3, <2>1, CallGoesOn
  <2>2. ASSUME NEW files, answer' = answer, call' = [call EXCEPT ![s].pc = "put", ![s].files = files]
        PROVE  IInv'
    <3>1. Moved(s, "put") BY <2>2 DEF TypeOK, Moved
    <3> QED BY <1>1, <1>3, <2>2, <3>1, CallGoesOn
  <2> QED BY <1>8, <2>1, <2>2 DEF Lstat
<1>9. CASE Loaded(s, "checkwalk") /\ Check(s) /\ ~ListFiles(s, "check", "checkwalk", Return(s, "error"))
           /\ ~ReadFile(s, "checkwalk", Return(s, "error"))
  <2>1. CASE Return(s, "error") BY <1>1, <1>3, <2>1, CallGoesOn
  <2>2. CASE To(s, "move") /\ answer' = answer BY <1>1, <1>3, <2>2, ToMoves, CallGoesOn
  <2> QED BY <1>9, <2>1, <2>2 DEF Check
<1>10. CASE Load(s) BY <1>5, <1>6, <1>10 DEF Load
<1>11. CASE Check(s) BY <1>5, <1>6, <1>9, <1>11 DEF Check
<1> QED BY <1>4, <1>7, <1>8, <1>10, <1>11

\* A package of a call is never taken for an absent one, nor are the defaults
LEMMA PackageIsPresent == ASSUME IInv, NEW s \in Sessions, Active(s) PROVE Package(s) # Absent
<1>1. call[s].id \in DOMAIN answer /\ DOMAIN answer = 1 .. Len(answer) BY DEF IInv, Calls, TypeOK
<1>2. call[s].id # 0 BY <1>1
<1> QED BY <1>2 DEF Package, Absent

LEMMA SeedIsPresent == Seeded # Absent
<1>1. Seeded.files = Default /\ Absent.files = <<>> BY DEF Seeded, Absent
<1> QED BY <1>1, SkillAssumption

LEMMA CreatePublishKeeps ==
  ASSUME IInv, NEW s \in Sessions, CreatePublish(s)
  PROVE  IInv'
<1> USE DEF IInv
<1>1. Active(s) /\ call[s].pc # "cleanup" /\ backups' = backups BY DEF CreatePublish, Active
<1>2. CASE skill' = Package(s) /\ published' = published \cup {call[s].id} /\ Return(s, "ok")
  <2>1. skill' # Absent BY <1>1, <1>2, PackageIsPresent
  <2> QED BY <1>1, <1>2, <2>1, ReturnCalls, KeptAtItsName
<1>3. CASE Return(s, "error") /\ UNCHANGED <<skill, published>> BY <1>1, <1>3, CallGoesOn
<1> QED BY <1>2, <1>3 DEF CreatePublish

\* The package that is moved aside is a backup of a call that is not over
LEMMA MoveAsideKeeps ==
  ASSUME IInv, NEW s \in Sessions, MoveAside(s)
  PROVE  IInv'
<1> USE DEF IInv
<1>1. Active(s) /\ call[s].pc # "cleanup" /\ published' = published BY DEF MoveAside, Active
<1>2. CASE Return(s, "error") /\ UNCHANGED <<skill, backups>> BY <1>1, <1>2, CallGoesOn
<1>3. CASE /\ skill # Absent /\ backups' = backups \cup {[call |-> call[s].id, package |-> skill]}
           /\ skill' = Absent /\ To(s, "publish") /\ answer' = answer
  <2>1. Moved(s, "publish") BY <1>3, ToMoves
  <2>2. TypeOK' /\ Calls' /\ AnswerIsTrue' BY <1>1, <1>3, <2>1, MoveCalls
  <2>3. \A t \in Sessions : call'[t].pc = "cleanup" => t # s /\ call'[t].id # call[s].id
    BY <1>1, <2>1 DEF Moved, Calls, Active
  <2>4. PICK b \in backups' : b.call = call[s].id
    <3>1. [call |-> call[s].id, package |-> skill] \in backups' BY <1>3
    <3>2. [call |-> call[s].id, package |-> skill].call = call[s].id OBVIOUS
    <3> QED BY <3>1, <3>2
  <2>5. ~ToBeRemoved(b)' BY <2>3, <2>4 DEF ToBeRemoved
  <2>6. \A c \in backups' : c.package # Absent BY <1>3 DEF Kept
  <2>7. Kept' BY <2>4, <2>5, <2>6 DEF Kept
  <2> QED BY <2>2, <2>7
<1> QED BY <1>2, <1>3 DEF MoveAside

LEMMA ReplacePublishKeeps ==
  ASSUME IInv, NEW s \in Sessions, ReplacePublish(s)
  PROVE  IInv'
<1> USE DEF IInv
<1>1. Active(s) /\ call[s].pc # "cleanup" /\ UNCHANGED <<backups, answer>> BY DEF ReplacePublish, Active
<1>2. CASE skill' = Package(s) /\ published' = published \cup {call[s].id} /\ To(s, "cleanup")
  <2>1. skill' # Absent BY <1>1, <1>2, PackageIsPresent
  <2> QED BY <1>1, <1>2, <2>1, ToMoves, MoveCalls, KeptAtItsName
<1>3. CASE To(s, "rollback") /\ UNCHANGED <<skill, published>> BY <1>1, <1>3, ToMoves, CallGoesOn
<1> QED BY <1>2, <1>3 DEF ReplacePublish

LEMMA RollbackKeeps ==
  ASSUME IInv, NEW s \in Sessions, Rollback(s)
  PROVE  IInv'
<1> USE DEF IInv
<1>1. /\ Active(s) /\ call[s].pc # "cleanup" /\ published' = published /\ Return(s, "error")
  BY DEF Rollback, Active
<1>2. CASE UNCHANGED <<skill, backups>> BY <1>1, <1>2, CallGoesOn
<1>3. ASSUME NEW b \in Backup(s), skill' = b.package, backups' = backups \ {b} PROVE IInv'
  <2>1. skill' # Absent BY <1>3 DEF Backup, Kept
  <2> QED BY <1>1, <1>3, <2>1, ReturnCalls, KeptAtItsName
<1> QED BY <1>2, <1>3 DEF Rollback

\* The clean-up takes its own backup, which nobody counts on any more
LEMMA CleanupKeeps ==
  ASSUME IInv, NEW s \in Sessions, Cleanup(s)
  PROVE  IInv'
<1> USE DEF IInv
<1>1. Active(s) /\ call[s].pc = "cleanup" /\ UNCHANGED <<skill, published>> /\ Return(s, "ok")
  BY DEF Cleanup, Active
<1>2. published' = published \cup {call[s].id} BY <1>1 DEF Calls
<1>3. TypeOK' /\ Calls' /\ AnswerIsTrue' BY <1>1, <1>2, ReturnCalls
<1>4. \A t \in Sessions : call'[t].pc = "cleanup" => call[t].pc = "cleanup" /\ call'[t].id = call[t].id
  BY <1>1, ReturnMoves, NoCallType
<1>5. backups' \subseteq backups /\ \A b \in backups : ~ToBeRemoved(b) => b \in backups'
  BY <1>1 DEF Cleanup, Backup, ToBeRemoved
<1>6. \A b \in backups : ~ToBeRemoved(b) => ~ToBeRemoved(b)' BY <1>4 DEF ToBeRemoved
<1>7. Kept' BY <1>1, <1>5, <1>6 DEF Kept
<1> QED BY <1>3, <1>7

\* The host, the listing and the crashes
LEMMA HostKeeps ==
  ASSUME IInv, Open \/ MakeRoot \/ SeedPublish \/ WriteMarker \/ Own \/ LoadSkills \/ HostRestart
               \/ SandboxCrash \/ UNCHANGED vars
  PROVE  IInv'
<1> USE DEF IInv, fileVars, vars
<1>1. UNCHANGED <<backups, answer>>
  BY DEF Open, MakeRoot, SeedPublish, WriteMarker, Own, LoadSkills, HostRestart, SandboxCrash
<1>2. CASE SandboxCrash
  <2>1. DOMAIN call' = Sessions /\ \A s \in Sessions : call'[s] = NoCall BY <1>2 DEF SandboxCrash
  <2>2. UNCHANGED <<skill, published>> BY <1>2 DEF SandboxCrash
  <2>3. TypeOK' BY <1>1, <2>1, <2>2, NoCallType DEF TypeOK
  <2>4. \A s \in Sessions : ~Active(s)' BY <2>1, NoCallType DEF Active
  <2>5. Calls' BY <1>1, <2>2, <2>4 DEF Calls
  <2>6. AnswerIsTrue' BY <1>1, <2>2 DEF AnswerIsTrue
  <2>7. Kept' BY <1>1, <2>1, <2>2, NoCallType, KeptAsItWas
  <2> QED BY <2>3, <2>5, <2>6, <2>7
<1>3. CASE call' = call /\ skill' = Seeded /\ published' = published \cup {0}
  <2>1. call' = call /\ skill' = Seeded /\ published' = published \cup {0} BY <1>3
  <2>2. DOMAIN answer = 1 .. Len(answer) /\ Len(answer) \in Nat BY DEF TypeOK
  <2>3. TypeOK' BY <1>1, <2>1 DEF TypeOK
  <2>4. \A id \in DOMAIN answer : id # 0 BY <2>2
  <2>5. Calls' BY <1>1, <2>1, <2>2, <2>4 DEF Calls, Active
  <2>6. AnswerIsTrue' BY <1>1, <2>1, <2>4 DEF AnswerIsTrue
  <2>7. Kept' BY <1>1, <2>1, SeedIsPresent, KeptAtItsName
  <2> QED BY <2>3, <2>5, <2>6, <2>7
<1>4. CASE UNCHANGED <<call, skill, published>>
  <2>1. TypeOK' BY <1>1, <1>4 DEF TypeOK
  <2>2. Calls' BY <1>1, <1>4 DEF Calls, Active
  <2>3. AnswerIsTrue' BY <1>1, <1>4 DEF AnswerIsTrue
  <2>4. Kept' BY <1>1, <1>4, KeptAsItWas
  <2> QED BY <2>1, <2>2, <2>3, <2>4
<1> QED BY <1>2, <1>3, <1>4 DEF Open, MakeRoot, SeedPublish, WriteMarker, Own, LoadSkills, HostRestart

-----------------------------------------------------------------------------
(***************************************************************************)
(* The theorems                                                            *)
(***************************************************************************)
LEMMA NextKeeps == ASSUME IInv, [Next]_vars PROVE IInv'
<1>1. ASSUME NEW s \in Sessions, Call(s) PROVE IInv'
  BY <1>1, BeginKeeps, PlanKeeps, CreatePublishKeeps, MoveAsideKeeps, ReplacePublishKeeps,
     RollbackKeeps, CleanupKeeps
  DEF Call
<1> QED BY <1>1, HostKeeps DEF Next

\* The inductive invariant of the skill store, for any number of sessions,
\* calls, failing renames and crashes.
THEOREM Inductive == Spec => []IInv
<1>1. Init => IInv BY InitIInv
<1>2. IInv /\ [Next]_vars => IInv' BY NextKeeps
<1> QED BY <1>1, <1>2, PTL DEF Spec

\* create_skill and update_skill answer with success exactly if their package
\* has been published.
THEOREM TrueAnswers == Spec => []AnswerIsTrue
<1>1. IInv => AnswerIsTrue BY DEF IInv
<1> QED BY <1>1, Inductive, PTL

\* Store.Create and Store.Replace never destroy a skill that has existed.
THEOREM NeverDestroyed == Spec => []NothingVanishes
<1>1. IInv => NothingVanishes BY DEF IInv, Kept, NothingVanishes
<1> QED BY <1>1, Inductive, PTL

-----------------------------------------------------------------------------
(***************************************************************************)
(* Exact edits.  FlattenSeq and FoldLeft are recursive functions: that     *)
(* they exist and what they give is shown by least counterexample.         *)
(***************************************************************************)
\* A non-empty set of natural numbers has a least element
LEMMA LeastExists ==
  ASSUME NEW S \in SUBSET Nat, S # {}
  PROVE  \E x \in S : \A y \in S : x <= y
<1>1. PICK x \in S : \A y \in S : ~(<<y, x>> \in OpToRel(<, Nat))
  BY NatLessThanWellFounded, WFMin
<1>2. \A y \in S : ~(y < x) BY <1>1 DEF OpToRel
<1> QED BY <1>2

\* g concatenates the first pieces of ss, as FlattenSeq does
Flattens(g, n, ss) == g = [i \in 1 .. n |-> IF i = 1 THEN ss[i] ELSE g[i - 1] \o ss[i]]

LEMMA FlattenFunction == ASSUME NEW n \in Nat, NEW ss PROVE \E g : Flattens(g, n, ss)
<1> DEFINE B == {k \in Nat : ~ \E g : Flattens(g, k, ss)}
<1> SUFFICES ASSUME B # {} PROVE FALSE OBVIOUS
<1>1. PICK k \in B : \A j \in B : k <= j
  <2>1. B \in SUBSET Nat OBVIOUS
  <2> HIDE DEF B
  <2> QED BY <2>1, LeastExists
<1>2. k \in Nat /\ ~ \E g : Flattens(g, k, ss) OBVIOUS
<1>3. k # 0
  <2>1. Flattens(<<>>, 0, ss)
    <3>1. 1 .. 0 = {} OBVIOUS
    <3> QED BY <3>1 DEF Flattens
  <2> QED BY <1>2, <2>1
<1>4. k - 1 \in Nat /\ k - 1 \notin B BY <1>1, <1>2, <1>3
<1>5. PICK g : Flattens(g, k - 1, ss) BY <1>4
<1> DEFINE h == [i \in 1 .. k |-> IF i \in 1 .. k - 1 THEN g[i] ELSE IF i = 1 THEN ss[i] ELSE g[i - 1] \o ss[i]]
<1>6. \A i \in 1 .. k : h[i] = IF i = 1 THEN ss[i] ELSE h[i - 1] \o ss[i]
  <2> SUFFICES ASSUME NEW i \in 1 .. k PROVE h[i] = IF i = 1 THEN ss[i] ELSE h[i - 1] \o ss[i] OBVIOUS
  <2>1. i # 1 => i - 1 \in 1 .. k - 1 /\ i - 1 \in 1 .. k BY <1>2
  <2>2. i # 1 => h[i - 1] = g[i - 1] BY <2>1
  <2>3. CASE i \in 1 .. k - 1
    <3>1. g[i] = IF i = 1 THEN ss[i] ELSE g[i - 1] \o ss[i] BY <1>5, <2>3 DEF Flattens
    <3> QED BY <2>2, <2>3, <3>1
  <2>4. CASE i \notin 1 .. k - 1 BY <2>2, <2>4
  <2> QED BY <2>3, <2>4
<1>7. h = [i \in 1 .. k |-> IF i = 1 THEN ss[i] ELSE h[i - 1] \o ss[i]]
  <2>1. DOMAIN h = 1 .. k /\ h = [i \in 1 .. k |-> h[i]] OBVIOUS
  <2> HIDE DEF h
  <2> QED BY <1>6, <2>1
<1> QED
  <2> HIDE DEF h
  <2> QED BY <1>2, <1>7 DEF Flattens

\* The prefixes of the concatenation of ss
PrefixTexts(g, T, n, ss) ==
  /\ g \in [1 .. n -> Seq(T)]
  /\ g[1] = ss[1] /\ \A i \in 2 .. n : g[i] = g[i - 1] \o ss[i]

LEMMA FlattenSteps ==
  ASSUME NEW T, NEW n \in Nat \ {0}, NEW ss \in [1 .. n -> Seq(T)]
  PROVE  \E g : PrefixTexts(g, T, n, ss) /\ FlattenSeq(ss) = g[n]
<1>1. Len(ss) = n
  <2>1. ss \in Seq(Seq(T)) BY IsASeq
  <2> QED BY <2>1, LenProperties
<1>2. PICK g : g = CHOOSE f : f = [i \in 1 .. Len(ss) |-> IF i = 1 THEN ss[i] ELSE f[i - 1] \o ss[i]] OBVIOUS
<1>3. Flattens(g, n, ss)
  <2>1. \E f : f = [i \in 1 .. Len(ss) |-> IF i = 1 THEN ss[i] ELSE f[i - 1] \o ss[i]]
    BY <1>1, FlattenFunction DEF Flattens
  <2>2. g = [i \in 1 .. Len(ss) |-> IF i = 1 THEN ss[i] ELSE g[i - 1] \o ss[i]] BY ONLY <1>2, <2>1, Zenon
  <2> QED BY <1>1, <2>2 DEF Flattens
<1>4. FlattenSeq(ss) = g[n]
  <2>1. FlattenSeq(ss) = g[Len(ss)]
    <3>1. Len(ss) # 0 BY <1>1
    <3> QED BY <1>2, <3>1 DEF FlattenSeq
  <2> QED BY <1>1, <2>1
<1>5. DOMAIN g = 1 .. n /\ g = [i \in 1 .. n |-> g[i]] BY <1>3 DEF Flattens
<1>6. g[1] = ss[1] /\ \A i \in 2 .. n : g[i] = g[i - 1] \o ss[i]
  <2>1. \A i \in 1 .. n : g[i] = IF i = 1 THEN ss[i] ELSE g[i - 1] \o ss[i] BY <1>3 DEF Flattens
  <2>2. 1 \in 1 .. n OBVIOUS
  <2>3. \A i \in 2 .. n : i \in 1 .. n /\ i # 1 OBVIOUS
  <2>4. g[1] = ss[1] BY <2>1, <2>2
  <2>5. ASSUME NEW i \in 2 .. n PROVE g[i] = g[i - 1] \o ss[i] BY ONLY <2>1, <2>3, <2>5
  <2> QED BY <2>4, <2>5
<1> DEFINE B == {k \in 1 .. n : g[k] \notin Seq(T)}
<1>7. B = {}
  <2> SUFFICES ASSUME B # {} PROVE FALSE OBVIOUS
  <2>1. PICK k \in B : \A j \in B : k <= j
    <3>1. B \in SUBSET Nat OBVIOUS
    <3> HIDE DEF B
    <3> QED BY <3>1, LeastExists
  <2>2. k \in 1 .. n /\ g[k] \notin Seq(T) OBVIOUS
  <2>3. k # 1 BY <1>6, <2>2
  <2>4. k - 1 \in 1 .. n /\ k - 1 \notin B BY <2>1, <2>2, <2>3
  <2>5. g[k - 1] \in Seq(T) BY <2>4
  <2>6. k \in 2 .. n BY <2>2, <2>3
  <2>7. g[k] = g[k - 1] \o ss[k] /\ ss[k] \in Seq(T) BY <1>6, <2>6
  <2>8. g[k] \in Seq(T) BY <2>5, <2>7, ConcatProperties
  <2> QED BY <2>2, <2>8
<1>8. g \in [1 .. n -> Seq(T)] BY <1>5, <1>7
<1> QED BY <1>4, <1>6, <1>8 DEF PrefixTexts

\* The first m pieces are the tokens of the text
Tokenwise(ss, text, m) == \A i \in 1 .. m : ss[i] = <<text[i]>>

\* Pieces that are the tokens of a text give its prefixes
LEMMA PrefixOfText ==
  ASSUME NEW T, NEW text \in Seq(T), NEW n \in Nat \ {0}, Len(text) = n, NEW ss, NEW g, PrefixTexts(g, T, n, ss),
         NEW m \in 1 .. n, Tokenwise(ss, text, m)
  PROVE  \A k \in 1 .. m : g[k] = SubSeq(text, 1, k)
<1> DEFINE B == {k \in 1 .. m : g[k] # SubSeq(text, 1, k)}
<1> SUFFICES ASSUME B # {} PROVE FALSE OBVIOUS
<1>1. PICK k \in B : \A j \in B : k <= j
  <2>1. B \in SUBSET Nat OBVIOUS
  <2> HIDE DEF B
  <2> QED BY <2>1, LeastExists
<1>2. k \in 1 .. m /\ g[k] # SubSeq(text, 1, k) /\ k \in 1 .. n OBVIOUS
<1>3. ss[k] = <<text[k]>> BY <1>2 DEF Tokenwise
<1>4. k # 1
  <2>1. SubSeq(text, 1, 1) = SubSeq(text, 1, 1 - 1) \o <<text[1]>> BY SubSeqRecursiveSecond
  <2>2. SubSeq(text, 1, 1 - 1) = <<>> BY SubSeqEmpty
  <2>3. <<text[1]>> \in Seq(T) BY ElementOfSeq
  <2>4. SubSeq(text, 1, 1) = <<text[1]>> BY <2>1, <2>2, <2>3, ConcatEmptySeq
  <2> QED BY <1>2, <1>3, <2>4 DEF PrefixTexts
<1>5. k - 1 \in 1 .. m /\ k - 1 \notin B /\ k \in 2 .. n BY <1>1, <1>2, <1>4
<1>6. g[k - 1] = SubSeq(text, 1, k - 1) BY <1>5
<1>7. g[k] = SubSeq(text, 1, k - 1) \o <<text[k]>> BY <1>3, <1>5, <1>6 DEF PrefixTexts
<1>8. SubSeq(text, 1, k - 1) \o <<text[k]>> = SubSeq(text, 1, k)
  BY <1>2, SubSeqRecursiveSecond
<1> QED BY <1>2, <1>7, <1>8

\* A set of edits of a text of n tokens that do not overlap
EditSet(T, n, edits) ==
  /\ \A p \in edits : /\ p.offset \in 1 .. n /\ p.end \in 1 .. n + 1 /\ p.offset < p.end
                      /\ p.new \in Seq(T)
  /\ \A p, q \in edits : p # q => p.offset >= q.end \/ q.offset >= p.end

LEMMA PieceOfEdit ==
  ASSUME NEW T, NEW n \in Nat, NEW edits, EditSet(T, n, edits), NEW text, NEW e \in edits,
         NEW i \in Nat, e.offset <= i, i < e.end
  PROVE  Piece(text, edits, i) = IF i = e.offset THEN e.new ELSE <<>>
<1>1. Covering(edits, i) = {e} BY DEF Covering, EditSet
<1> QED BY <1>1 DEF Piece

LEMMA PieceType ==
  ASSUME NEW T, NEW n \in Nat, NEW edits, EditSet(T, n, edits), NEW text \in Seq(T), Len(text) = n,
         NEW i \in 1 .. n
  PROVE  Piece(text, edits, i) \in Seq(T)
<1>1. CASE Covering(edits, i) = {}
  <2>1. text[i] \in T BY ElementOfSeq
  <2> QED BY <1>1, <2>1 DEF Piece
<1>2. ASSUME NEW e \in Covering(edits, i) PROVE Piece(text, edits, i) \in Seq(T)
  <2>1. e \in edits /\ e.offset <= i /\ i < e.end /\ i \in Nat /\ e.new \in Seq(T) BY <1>2 DEF Covering, EditSet
  <2>2. Piece(text, edits, i) = IF i = e.offset THEN e.new ELSE <<>> BY <2>1, PieceOfEdit
  <2> QED BY <2>1, <2>2
<1> QED BY <1>1, <1>2

Pieces(text, edits) == [i \in 1 .. Len(text) |-> Piece(text, edits, i)]

LEMMA SubstitutedSteps ==
  ASSUME NEW T, NEW n \in Nat \ {0}, NEW edits, EditSet(T, n, edits), NEW text \in Seq(T), Len(text) = n
  PROVE  \E g : PrefixTexts(g, T, n, Pieces(text, edits)) /\ Substituted(text, edits) = g[n]
<1>1. Pieces(text, edits) \in [1 .. n -> Seq(T)] BY PieceType DEF Pieces
<1>2. Substituted(text, edits) = FlattenSeq(Pieces(text, edits)) BY DEF Substituted, Pieces
<1> QED BY <1>1, <1>2, FlattenSteps

\* Without edits the text stays
LEMMA NoEdits ==
  ASSUME NEW T, NEW n \in Nat \ {0}, NEW text \in Seq(T), Len(text) = n
  PROVE  Substituted(text, {}) = text
<1>1. EditSet(T, n, {}) BY DEF EditSet
<1>2. PICK g : PrefixTexts(g, T, n, Pieces(text, {})) /\ Substituted(text, {}) = g[n]
  BY <1>1, SubstitutedSteps
<1>3. Tokenwise(Pieces(text, {}), text, n) BY DEF Tokenwise, Pieces, Piece, Covering
<1>4. n \in 1 .. n OBVIOUS
<1>5. g[n] = SubSeq(text, 1, n) BY <1>2, <1>3, <1>4, PrefixOfText
<1>6. SubSeq(text, 1, n) = text BY SubSeqFull
<1> QED BY <1>2, <1>5, <1>6

\* An edit before all others splits the pieces: tokens of the text before it,
\* its new text, nothing up to its end, and from there on what the others make
LEMMA FirstEditPieces ==
  ASSUME NEW T, NEW n \in Nat \ {0}, NEW edits, EditSet(T, n, edits), NEW text \in Seq(T), Len(text) = n,
         NEW e \in edits, \A p \in edits : e.offset <= p.offset
  PROVE  /\ \A i \in 1 .. n : i < e.end => Pieces(text, edits \ {e})[i] = <<text[i]>>
         /\ \A i \in 1 .. n : i < e.offset => Pieces(text, edits)[i] = <<text[i]>>
         /\ \A i \in 1 .. n : e.offset <= i /\ i < e.end =>
              Pieces(text, edits)[i] = IF i = e.offset THEN e.new ELSE <<>>
         /\ \A i \in 1 .. n : e.end <= i => Pieces(text, edits)[i] = Pieces(text, edits \ {e})[i]
<1>1. e.offset \in 1 .. n /\ e.end \in 1 .. n + 1 /\ e.offset < e.end BY DEF EditSet
<1>2. ASSUME NEW p \in edits \ {e} PROVE p.offset >= e.end
  <2>1. p.offset \in 1 .. n /\ p.end \in 1 .. n + 1 /\ p.offset < p.end BY DEF EditSet
  <2>2. p.offset >= e.end \/ e.offset >= p.end BY DEF EditSet
  <2>3. e.offset <= p.offset OBVIOUS
  <2> QED BY <1>1, <2>1, <2>2, <2>3
<1>3. ASSUME NEW i \in 1 .. n, i < e.end PROVE Pieces(text, edits \ {e})[i] = <<text[i]>>
  <2>1. Covering(edits \ {e}, i) = {} BY <1>1, <1>2, <1>3 DEF Covering, EditSet
  <2> QED BY <2>1 DEF Pieces, Piece
<1>4. ASSUME NEW i \in 1 .. n, i < e.offset PROVE Pieces(text, edits)[i] = <<text[i]>>
  <2>1. Covering(edits, i) = {} BY <1>1, <1>4 DEF Covering, EditSet
  <2> QED BY <2>1 DEF Pieces, Piece
<1>5. ASSUME NEW i \in 1 .. n, e.offset <= i, i < e.end
      PROVE  Pieces(text, edits)[i] = IF i = e.offset THEN e.new ELSE <<>>
  BY <1>5, PieceOfEdit DEF Pieces
<1>6. ASSUME NEW i \in 1 .. n, e.end <= i PROVE Pieces(text, edits)[i] = Pieces(text, edits \ {e})[i]
  <2>1. Covering(edits, i) = Covering(edits \ {e}, i) BY <1>1, <1>6 DEF Covering
  <2> QED BY <2>1 DEF Pieces, Piece
<1> QED BY <1>3, <1>4, <1>5, <1>6

\* The pieces before and in an edit from a to b - 1
EditPieces(ss, text, n, a, b, new) ==
  /\ \A i \in 1 .. n : i < a => ss[i] = <<text[i]>>
  /\ \A i \in 1 .. n : a <= i /\ i < b => ss[i] = IF i = a THEN new ELSE <<>>

\* They make the text before it and its new text
LEMMA PrefixOfEdit ==
  ASSUME NEW T, NEW text \in Seq(T), NEW n \in Nat \ {0}, Len(text) = n, NEW ss, NEW h, PrefixTexts(h, T, n, ss),
         NEW a \in 1 .. n, NEW b \in 1 .. n + 1, a < b, NEW new \in Seq(T),
         EditPieces(ss, text, n, a, b, new)
  PROVE  \A k \in a .. b - 1 : h[k] = SubSeq(text, 1, a - 1) \o new
<1>0. ASSUME a # 1 PROVE h[a - 1] = SubSeq(text, 1, a - 1)
  <2>1. PICK m \in 1 .. n : m = a - 1 BY <1>0
  <2>2. Tokenwise(ss, text, m)
    <3>1. \A i \in 1 .. m : i \in 1 .. n /\ i < a BY <2>1
    <3> QED BY <3>1 DEF Tokenwise, EditPieces
  <2>3. text \in Seq(T) /\ n \in Nat \ {0} /\ Len(text) = n /\ PrefixTexts(h, T, n, ss) /\ m \in 1 .. n OBVIOUS
  <2>4. \A j \in 1 .. m : h[j] = SubSeq(text, 1, j) BY <2>2, <2>3, PrefixOfText
  <2> QED BY <2>1, <2>4
<1> DEFINE B == {k \in a .. b - 1 : h[k] # SubSeq(text, 1, a - 1) \o new}
<1> SUFFICES ASSUME B # {} PROVE FALSE OBVIOUS
<1>1. PICK k \in B : \A j \in B : k <= j
  <2>1. B \in SUBSET Nat OBVIOUS
  <2> HIDE DEF B
  <2> QED BY <2>1, LeastExists
<1>2. k \in a .. b - 1 /\ k \in 1 .. n /\ h[k] # SubSeq(text, 1, a - 1) \o new OBVIOUS
<1>3. CASE k = a /\ a = 1
  <2>1. h[k] = ss[1] BY <1>2, <1>3 DEF PrefixTexts
  <2>3. ss[1] = new BY <1>2, <1>3 DEF EditPieces
  <2>2. SubSeq(text, 1, a - 1) = <<>> BY <1>3, SubSeqEmpty
  <2> QED BY <1>2, <2>1, <2>2, <2>3, ConcatEmptySeq
<1>4. CASE k = a /\ a # 1
  <2>4. h[k] = h[k - 1] \o ss[k]
    <3>1. k \in 2 .. n BY <1>2, <1>4
    <3>2. \A i \in 2 .. n : h[i] = h[i - 1] \o ss[i] BY DEF PrefixTexts
    <3> QED BY <3>1, <3>2
  <2>5. ss[k] = new BY <1>2, <1>4 DEF EditPieces
  <2> QED BY <1>0, <1>2, <1>4, <2>4, <2>5
<1>5. CASE k # a
  <2>1. k - 1 \in a .. b - 1 /\ k - 1 \notin B /\ k \in 2 .. n
    <3>1. k - 1 \in a .. b - 1 /\ k \in 2 .. n /\ ~(k <= k - 1) BY <1>2, <1>5
    <3> HIDE DEF B
    <3>2. k - 1 \notin B BY <1>1, <3>1
    <3> QED BY <3>1, <3>2
  <2>2. h[k - 1] = SubSeq(text, 1, a - 1) \o new BY <2>1
  <2>3. h[k] = h[k - 1] \o <<>>
    <3>1. \A i \in 2 .. n : h[i] = h[i - 1] \o ss[i] BY DEF PrefixTexts
    <3>2. ss[k] = <<>> BY <1>2, <1>5 DEF EditPieces
    <3> QED BY <2>1, <3>1, <3>2
  <2>4. h[k - 1] \in Seq(T) BY <1>2, <2>1 DEF PrefixTexts
  <2>5. h[k] = h[k - 1] BY <2>3, <2>4, ConcatEmptySeq
  <2> QED BY <1>2, <2>2, <2>5
<1> QED BY <1>3, <1>4, <1>5

\* After m the pieces are the same
SameAfter(ss, tt, T, n, m) == \A i \in 1 .. n : m < i => tt[i] = ss[i] /\ ss[i] \in Seq(T)

SameRests(T, n, m, g, h) == \E rest \in Seq(T) : g[n] = g[m] \o rest /\ h[n] = h[m] \o rest

\* From the end of an edit on, the same text follows with it and without it
LEMMA SameRest ==
  ASSUME NEW T, NEW n \in Nat \ {0}, NEW ss, NEW g, PrefixTexts(g, T, n, ss), NEW tt, NEW h, PrefixTexts(h, T, n, tt),
         NEW m \in 1 .. n, SameAfter(ss, tt, T, n, m)
  PROVE  SameRests(T, n, m, g, h)
<1> DEFINE Rest(k) == \E rest \in Seq(T) : g[k] = g[m] \o rest /\ h[k] = h[m] \o rest
           B == {k \in m .. n : ~Rest(k)}
<1> SUFFICES ASSUME ~Rest(n) PROVE FALSE BY DEF SameRests
<1>0. B # {}
  <2>1. n \in m .. n OBVIOUS
  <2> QED BY <2>1
<1>1. PICK k \in B : \A j \in B : k <= j
  <2>1. B \in SUBSET Nat OBVIOUS
  <2> HIDE DEF B
  <2> QED BY <1>0, <2>1, LeastExists
<1>2. k \in m .. n /\ ~Rest(k) OBVIOUS
<1>3. g[m] \in Seq(T) /\ h[m] \in Seq(T) BY DEF PrefixTexts
<1>4. k # m
  <2>1. g[m] = g[m] \o <<>> /\ h[m] = h[m] \o <<>> /\ <<>> \in Seq(T) BY <1>3, ConcatEmptySeq, EmptySeq
  <2> QED BY <1>2, <2>1
<1>5. k - 1 \in m .. n /\ k - 1 \notin B /\ k \in 2 .. n /\ k \in 1 .. n /\ m < k
  <2>1. k - 1 \in m .. n /\ k \in 2 .. n /\ k \in 1 .. n /\ m < k /\ ~(k <= k - 1) BY <1>2, <1>4
  <2> HIDE DEF B
  <2>2. k - 1 \notin B BY <1>1, <2>1
  <2> QED BY <2>1, <2>2
<1>6. PICK rest \in Seq(T) : g[k - 1] = g[m] \o rest /\ h[k - 1] = h[m] \o rest BY <1>5
<1>7. g[k] = g[k - 1] \o ss[k] /\ h[k] = h[k - 1] \o ss[k] /\ ss[k] \in Seq(T)
  <2>1. g[k] = g[k - 1] \o ss[k] BY <1>5 DEF PrefixTexts
  <2>2. h[k] = h[k - 1] \o tt[k] BY <1>5 DEF PrefixTexts
  <2>3. tt[k] = ss[k] /\ ss[k] \in Seq(T) BY <1>5 DEF SameAfter
  <2> QED BY <2>1, <2>2, <2>3
<1>8. rest \o ss[k] \in Seq(T) BY <1>7, ConcatProperties
<1>9. g[k] = g[m] \o (rest \o ss[k])
  <2>1. (g[m] \o rest) \o ss[k] = g[m] \o (rest \o ss[k])
    <3>1. PICK x, y : x = g[m] /\ y = ss[k] OBVIOUS
    <3>2. x \in Seq(T) /\ rest \in Seq(T) /\ y \in Seq(T) BY <1>3, <1>7, <3>1
    <3>3. (x \o rest) \o y = x \o (rest \o y) BY ONLY <3>2, ConcatAssociative
    <3> QED BY ONLY <3>1, <3>3
  <2> QED BY <1>6, <1>7, <2>1
<1>10. h[k] = h[m] \o (rest \o ss[k])
  <2>1. (h[m] \o rest) \o ss[k] = h[m] \o (rest \o ss[k])
    <3>1. PICK x, y : x = h[m] /\ y = ss[k] OBVIOUS
    <3>2. x \in Seq(T) /\ rest \in Seq(T) /\ y \in Seq(T) BY <1>3, <1>7, <3>1
    <3>3. (x \o rest) \o y = x \o (rest \o y) BY ONLY <3>2, ConcatAssociative
    <3> QED BY ONLY <3>1, <3>3
  <2> QED BY <1>6, <1>7, <2>1
<1> QED BY <1>2, <1>8, <1>9, <1>10

\* Two sequences in the place of a prefix: what replaceAt does
LEMMA ReplaceInside ==
  ASSUME NEW T, NEW text \in Seq(T), NEW a \in 1 .. Len(text), NEW b \in 1 .. Len(text) + 1, a < b,
         NEW rest \in Seq(T), NEW new \in Seq(T), NEW edit, edit.offset = a, edit.end = b, edit.new = new
  PROVE  replaceAt(SubSeq(text, 1, b - 1) \o rest, edit) = (SubSeq(text, 1, a - 1) \o new) \o rest
<1>1. Len(text) \in Nat BY LenProperties
<1>2. PICK head : head = SubSeq(text, 1, b - 1) OBVIOUS
<1>3. head \in Seq(T) /\ Len(head) = b - 1 /\ \A i \in 1 .. b - 1 : head[i] = text[i]
  <2>1. \A i \in 1 .. b - 1 : text[i] \in T BY <1>1, ElementOfSeq
  <2>2. SubSeq(text, 1, b - 1) \in Seq(T) /\ Len(SubSeq(text, 1, b - 1)) = b - 1
    BY <1>1, <2>1, SubSeqProperties
  <2>3. \A i \in 1 .. b - 1 : SubSeq(text, 1, b - 1)[i] = text[i] BY <1>1, SubSeqProperties
  <2> QED BY <1>2, <2>2, <2>3
<1>4. PICK whole : whole = head \o rest OBVIOUS
<1>5. /\ whole \in Seq(T) /\ Len(whole) = b - 1 + Len(rest) /\ Len(rest) \in Nat
      /\ \A i \in 1 .. b - 1 : whole[i] = text[i]
      /\ \A i \in 1 .. Len(rest) : whole[b - 1 + i] = rest[i]
  <2>1. whole \in Seq(T) /\ Len(whole) = Len(head) + Len(rest) /\ Len(rest) \in Nat
    BY <1>3, <1>4, ConcatProperties, LenProperties
  <2>2. \A i \in 1 .. Len(head) + Len(rest) : whole[i] = IF i <= Len(head) THEN head[i] ELSE rest[i - Len(head)]
    BY <1>3, <1>4, ConcatProperties
  <2>3. ASSUME NEW i \in 1 .. b - 1 PROVE whole[i] = text[i]
    <3>1. i \in 1 .. Len(head) + Len(rest) /\ i <= Len(head) BY <1>1, <1>3, <2>1
    <3>2. whole[i] = head[i] BY <2>2, <3>1
    <3> QED BY <1>3, <3>2
  <2>4. ASSUME NEW i \in 1 .. Len(rest) PROVE whole[b - 1 + i] = rest[i]
    <3>1. PICK j \in 1 .. Len(head) + Len(rest) : j = b - 1 + i /\ j - Len(head) = i /\ ~(j <= Len(head))
      BY <1>1, <1>3, <2>1
    <3> QED BY <2>2, <3>1
  <2> QED BY <1>3, <2>1, <2>3, <2>4
<1>6. SubSeq(whole, 1, a - 1) = SubSeq(text, 1, a - 1)
  <2>1. \A i \in 1 .. a - 1 : whole[i] = text[i] BY <1>1, <1>5
  <2>2. \A i \in 1 .. a - 1 : text[i] \in T BY <1>1, ElementOfSeq
  <2>3. \A i \in 1 .. a - 1 : whole[i] \in T BY <2>1, <2>2
  <2>4. /\ SubSeq(whole, 1, a - 1) \in Seq(T) /\ Len(SubSeq(whole, 1, a - 1)) = a - 1
        /\ \A i \in 1 .. a - 1 : SubSeq(whole, 1, a - 1)[i] = whole[i]
    BY <1>1, <2>3, SubSeqProperties
  <2>5. /\ SubSeq(text, 1, a - 1) \in Seq(T) /\ Len(SubSeq(text, 1, a - 1)) = a - 1
        /\ \A i \in 1 .. a - 1 : SubSeq(text, 1, a - 1)[i] = text[i]
    BY <1>1, <2>2, SubSeqProperties
  <2> QED BY <2>1, <2>4, <2>5, SeqEqual
<1>7. SubSeq(whole, b, Len(whole)) = rest
  <2>1. PICK n \in Nat : n = Len(whole) /\ n - b + 1 = Len(rest) BY <1>1, <1>5
  <2>2. \A i \in b .. n : whole[i] \in T BY <1>5, <2>1, ElementOfSeq
  <2>3. /\ SubSeq(whole, b, n) \in Seq(T) /\ Len(SubSeq(whole, b, n)) = n - b + 1
        /\ \A i \in 1 .. n - b + 1 : SubSeq(whole, b, n)[i] = whole[b + i - 1]
    BY <1>1, <2>1, <2>2, <1>5, SubSeqProperties
  <2>4. ASSUME NEW i \in 1 .. Len(rest) PROVE SubSeq(whole, b, n)[i] = rest[i]
    <3>1. i \in 1 .. n - b + 1 /\ b + i - 1 = b - 1 + i BY <1>1, <1>5, <2>1
    <3>2. SubSeq(whole, b, n)[i] = whole[b + i - 1] BY <2>3, <3>1
    <3>3. whole[b - 1 + i] = rest[i] BY <1>5
    <3> QED BY <3>1, <3>2, <3>3
  <2> QED BY <2>1, <2>3, <2>4, SeqEqual
<1>8. replaceAt(whole, edit) = SubSeq(whole, 1, a - 1) \o new \o SubSeq(whole, b, Len(whole)) BY DEF replaceAt
<1> QED BY <1>2, <1>4, <1>6, <1>7, <1>8

\* One step of the plan: the edit before all others that are already done
LEMMA ReplaceFirst ==
  ASSUME NEW T, NEW n \in Nat \ {0}, NEW edits, EditSet(T, n, edits), NEW text \in Seq(T), Len(text) = n,
         NEW e \in edits, \A p \in edits : e.offset <= p.offset
  PROVE  replaceAt(Substituted(text, edits \ {e}), e) = Substituted(text, edits)
<1>1. EditSet(T, n, edits \ {e}) BY DEF EditSet
<1>2. PICK g : PrefixTexts(g, T, n, Pieces(text, edits \ {e})) /\ Substituted(text, edits \ {e}) = g[n]
  BY <1>1, SubstitutedSteps
<1>3. PICK h : PrefixTexts(h, T, n, Pieces(text, edits)) /\ Substituted(text, edits) = h[n]
  BY SubstitutedSteps
<1>4. PICK ss : ss = Pieces(text, edits \ {e}) OBVIOUS
<1>5. PICK tt : tt = Pieces(text, edits) OBVIOUS
<1>6. PICK a, b, new : a = e.offset /\ b = e.end /\ new = e.new OBVIOUS
<1>7. a \in 1 .. n /\ b \in 1 .. n + 1 /\ a < b /\ new \in Seq(T) BY <1>6 DEF EditSet
<1>8. /\ \A i \in 1 .. n : i < b => ss[i] = <<text[i]>>
      /\ \A i \in 1 .. n : i < a => tt[i] = <<text[i]>>
      /\ \A i \in 1 .. n : a <= i /\ i < b => tt[i] = IF i = a THEN new ELSE <<>>
      /\ \A i \in 1 .. n : b <= i => tt[i] = ss[i]
  BY <1>4, <1>5, <1>6, FirstEditPieces
<1>9. PICK m \in 1 .. n : m = b - 1 BY <1>7
<1>10. g[m] = SubSeq(text, 1, b - 1)
  <2>1. Tokenwise(ss, text, m)
    <3>1. \A i \in 1 .. m : i \in 1 .. n /\ i < b BY <1>7, <1>9
    <3> QED BY <1>8, <3>1 DEF Tokenwise
  <2>2. PrefixTexts(g, T, n, ss) BY <1>2, <1>4
  <2>3. \A k \in 1 .. m : g[k] = SubSeq(text, 1, k) BY <2>1, <2>2, PrefixOfText
  <2> QED BY <1>9, <2>3
<1>11. h[m] = SubSeq(text, 1, a - 1) \o new
  <2>1. PrefixTexts(h, T, n, tt) BY <1>3, <1>5
  <2>4. EditPieces(tt, text, n, a, b, new) BY <1>8 DEF EditPieces
  <2>2. \A k \in a .. b - 1 : h[k] = SubSeq(text, 1, a - 1) \o new BY <1>7, <2>1, <2>4, PrefixOfEdit
  <2>3. m \in a .. b - 1 BY <1>7, <1>9
  <2> QED BY <2>2, <2>3
<1>12. PICK rest \in Seq(T) : g[n] = g[m] \o rest /\ h[n] = h[m] \o rest
  <2>1. PrefixTexts(g, T, n, ss) /\ PrefixTexts(h, T, n, tt) BY <1>2, <1>3, <1>4, <1>5
  <2>2. \A i \in 1 .. n : ss[i] \in Seq(T) BY <1>1, <1>4, PieceType DEF Pieces
  <2>3. SameAfter(ss, tt, T, n, m) BY <1>7, <1>8, <1>9, <2>2 DEF SameAfter
  <2>4. n \in Nat \ {0} /\ m \in 1 .. n BY <1>9
  <2>5. SameRests(T, n, m, g, h) BY <2>1, <2>3, <2>4, SameRest
  <2> QED BY ONLY <2>5 DEF SameRests
<1>13. replaceAt(SubSeq(text, 1, b - 1) \o rest, e) = (SubSeq(text, 1, a - 1) \o new) \o rest
  <2>1. a \in 1 .. Len(text) /\ b \in 1 .. Len(text) + 1 BY <1>7
  <2>2. text \in Seq(T) /\ a < b /\ rest \in Seq(T) /\ new \in Seq(T) BY <1>7
  <2>3. e.offset = a /\ e.end = b /\ e.new = new BY <1>6
  <2> QED BY ONLY <2>1, <2>2, <2>3, ReplaceInside
<1> QED BY <1>2, <1>3, <1>10, <1>11, <1>12, <1>13

LEMMA GreatestExists ==
  ASSUME NEW m \in Nat, NEW S \in SUBSET (1 .. m), S # {}
  PROVE  Max(S) \in S /\ \A y \in S : Max(S) >= y
<1> DEFINE D == {d \in 0 .. m : m - d \in S}
<1>1. D \in SUBSET Nat /\ D # {}
  <2>1. PICK y \in S : TRUE OBVIOUS
  <2>2. m - y \in 0 .. m /\ m - (m - y) = y OBVIOUS
  <2>3. m - y \in D BY <2>1, <2>2
  <2>4. D \in SUBSET Nat OBVIOUS
  <2> HIDE DEF D
  <2> QED BY <2>3, <2>4
<1>2. PICK d \in D : \A c \in D : d <= c
  <2> HIDE DEF D
  <2> QED BY <1>1, LeastExists
<1>3. m - d \in S /\ d \in 0 .. m OBVIOUS
<1>4. \A y \in S : m - d >= y
  <2> SUFFICES ASSUME NEW y \in S PROVE m - d >= y OBVIOUS
  <2>1. m - y \in 0 .. m /\ m - (m - y) = y /\ y \in 1 .. m OBVIOUS
  <2>2. m - y \in D BY <2>1
  <2>3. d <= m - y
    <3> HIDE DEF D
    <3> QED BY <1>2, <2>2
  <2> QED BY <1>3, <2>1, <2>3
<1>5. \E x \in S : \A y \in S : x >= y BY <1>3, <1>4
<1> HIDE DEF D
<1> QED BY <1>5 DEF Max

\* The edits of the plan whose positions are in s
Done(plan, s) == {plan[i] : i \in s}

Descending(plan, m) == \A i, j \in 1 .. m : i < j => plan[i].offset > plan[j].offset

\* The edit of the plan that is made last comes first in the text
LEMMA OneMoreEdit ==
  ASSUME NEW T, NEW n \in Nat \ {0}, NEW text \in Seq(T), Len(text) = n, NEW edits, EditSet(T, n, edits),
         NEW m \in Nat, NEW plan \in [1 .. m -> edits], Descending(plan, m),
         NEW s \in SUBSET (1 .. m), s # {}
  PROVE  Substituted(text, Done(plan, s)) =
           replaceAt(Substituted(text, Done(plan, s \ {Max(s)})), plan[Max(s)])
<1>1. PICK x : x = Max(s) OBVIOUS
<1>2. x \in s /\ \A y \in s : x >= y BY <1>1, GreatestExists
<1>3. Done(plan, s) \subseteq edits BY DEF Done
<1>4. EditSet(T, n, Done(plan, s)) BY <1>3 DEF EditSet
<1>5. \A i \in s : plan[i] \in edits /\ plan[i].offset \in 1 .. n BY DEF EditSet
<1>6. \A i \in s : i # x => plan[x].offset < plan[i].offset
  <2> SUFFICES ASSUME NEW i \in s, i # x PROVE plan[x].offset < plan[i].offset OBVIOUS
  <2>1. i \in 1 .. m /\ x \in 1 .. m /\ i < x BY <1>2
  <2> QED BY <1>2, <1>5, <2>1 DEF Descending
<1>7. plan[x] \in Done(plan, s) BY <1>2 DEF Done
<1>8. \A p \in Done(plan, s) : plan[x].offset <= p.offset
  <2> SUFFICES ASSUME NEW i \in s PROVE plan[x].offset <= plan[i].offset BY DEF Done
  <2> QED BY <1>2, <1>5, <1>6
<1>9. Done(plan, s) \ {plan[x]} = Done(plan, s \ {x})
  <2>1. \A i \in s : i # x => plan[i] # plan[x] BY <1>2, <1>5, <1>6
  <2> QED BY <1>2, <2>1 DEF Done
<1>10. replaceAt(Substituted(text, Done(plan, s) \ {plan[x]}), plan[x]) = Substituted(text, Done(plan, s))
  BY <1>4, <1>7, <1>8, ReplaceFirst
<1> QED BY <1>1, <1>9, <1>10

\* Making the edits of the plan one after the other, as the update tool
\* does, is the substitution of all of them at once
LEMMA FoldSubstitutes ==
  ASSUME NEW T, NEW n \in Nat \ {0}, NEW text \in Seq(T), Len(text) = n, NEW edits, EditSet(T, n, edits),
         NEW m \in Nat, NEW plan \in [1 .. m -> edits], Descending(plan, m)
  PROVE  FoldLeft(replaceAt, text, plan) = Substituted(text, Done(plan, 1 .. m))
<1>1. DOMAIN plan = 1 .. m OBVIOUS
<1>2. PICK f : f = CHOOSE iter : iter = [s \in SUBSET (DOMAIN plan) |->
                     IF s = {} THEN text ELSE replaceAt(iter[s \ {Max(s)}], plan[Max(s)])]
  OBVIOUS
<1>3. FoldLeft(replaceAt, text, plan) = f[DOMAIN plan] BY <1>2 DEF FoldLeft, MapThenFoldSet
<1> DEFINE G == [s \in SUBSET (DOMAIN plan) |-> Substituted(text, Done(plan, s))]
<1>4. Done(plan, {}) = {} BY DEF Done
<1>5. Substituted(text, Done(plan, {})) = text BY <1>4, NoEdits
<1>6. G = [s \in SUBSET (DOMAIN plan) |->
             IF s = {} THEN text ELSE replaceAt(G[s \ {Max(s)}], plan[Max(s)])]
  <2> SUFFICES ASSUME NEW s \in SUBSET (DOMAIN plan)
               PROVE  G[s] = IF s = {} THEN text ELSE replaceAt(G[s \ {Max(s)}], plan[Max(s)])
    OBVIOUS
  <2>1. CASE s = {} BY <1>5, <2>1
  <2>2. CASE s # {}
    <3>1. Substituted(text, Done(plan, s)) =
            replaceAt(Substituted(text, Done(plan, s \ {Max(s)})), plan[Max(s)])
      BY <1>1, <2>2, OneMoreEdit
    <3>2. s \ {Max(s)} \in SUBSET (DOMAIN plan) OBVIOUS
    <3> QED BY <2>2, <3>1, <3>2
  <2> QED BY <2>1, <2>2
<1>7. f = [s \in SUBSET (DOMAIN plan) |->
             IF s = {} THEN text ELSE replaceAt(f[s \ {Max(s)}], plan[Max(s)])]
  <2>1. \E iter : iter = [s \in SUBSET (DOMAIN plan) |->
                     IF s = {} THEN text ELSE replaceAt(iter[s \ {Max(s)}], plan[Max(s)])]
    <3> HIDE DEF G
    <3> QED BY <1>6
  <2> QED BY ONLY <1>2, <2>1, Zenon
<1>8. \A k \in 0 .. m : f[1 .. k] = Substituted(text, Done(plan, 1 .. k))
  <2> DEFINE B == {k \in 0 .. m : f[1 .. k] # Substituted(text, Done(plan, 1 .. k))}
  <2> SUFFICES ASSUME B # {} PROVE FALSE OBVIOUS
  <2>1. PICK k \in B : \A j \in B : k <= j
    <3>1. B \in SUBSET Nat OBVIOUS
    <3> HIDE DEF B
    <3> QED BY <3>1, LeastExists
  <2>2. k \in 0 .. m /\ f[1 .. k] # Substituted(text, Done(plan, 1 .. k)) OBVIOUS
  <2>3. 1 .. k \in SUBSET (DOMAIN plan) /\ 1 .. k \in SUBSET (1 .. m) BY <1>1, <2>2
  <2>4. k # 0
    <3>1. 1 .. 0 = {} OBVIOUS
    <3>2. f[{}] = text BY <1>7
    <3> QED BY <1>5, <2>2, <3>1, <3>2
  <2>5. k - 1 \in 0 .. m /\ ~(k <= k - 1) /\ 1 .. k # {} BY <2>2, <2>4
  <2>6. k - 1 \notin B
    <3> HIDE DEF B
    <3> QED BY <2>1, <2>5
  <2>7. f[1 .. k - 1] = Substituted(text, Done(plan, 1 .. k - 1)) BY <2>5, <2>6
  <2>8. Max(1 .. k) = k
    <3>1. Max(1 .. k) \in 1 .. k /\ \A y \in 1 .. k : Max(1 .. k) >= y BY <2>3, <2>5, GreatestExists
    <3>2. k \in 1 .. k BY <2>2, <2>4
    <3> QED BY <3>1, <3>2
  <2>9. (1 .. k) \ {k} = 1 .. k - 1 BY <2>2, <2>4
  <2>10. f[1 .. k] = replaceAt(f[(1 .. k) \ {Max(1 .. k)}], plan[Max(1 .. k)]) BY <1>7, <2>3, <2>5
  <2>11. Substituted(text, Done(plan, 1 .. k)) =
           replaceAt(Substituted(text, Done(plan, (1 .. k) \ {Max(1 .. k)})), plan[Max(1 .. k)])
    <3>1. PICK s : s = 1 .. k OBVIOUS
    <3>2. s \in SUBSET (1 .. m) /\ s # {} BY <2>3, <2>5, <3>1
    <3> HIDE DEF B
    <3>3. Substituted(text, Done(plan, s)) =
            replaceAt(Substituted(text, Done(plan, s \ {Max(s)})), plan[Max(s)])
      BY <3>2, OneMoreEdit
    <3> QED BY <3>1, <3>3
  <2> QED BY <2>2, <2>7, <2>8, <2>9, <2>10, <2>11
<1> QED BY <1>1, <1>3, <1>8

\* How many edits start at p or after it
AtOrAfter(edits, p) == {q \in edits : q.offset >= p.offset}

LEMMA SortedPlanExists ==
  ASSUME NEW T, NEW n \in Nat, NEW edits, EditSet(T, n, edits), IsFiniteSet(edits),
         NEW m \in Nat, Cardinality(edits) = m
  PROVE  \E plan \in [1 .. m -> edits] :
           (\A i, j \in 1 .. m : i # j => plan[i] # plan[j]) /\ Descending(plan, m)
<1> DEFINE rank == [p \in edits |-> Cardinality(AtOrAfter(edits, p))]
<1>1. \A p \in edits : p.offset \in 1 .. n BY DEF EditSet
<1>2. \A p \in edits : IsFiniteSet(AtOrAfter(edits, p)) /\ AtOrAfter(edits, p) \in SUBSET edits
  BY FS_Subset DEF AtOrAfter
<1>3. ASSUME NEW p \in edits PROVE rank[p] \in 1 .. m
  <2>1. Cardinality(AtOrAfter(edits, p)) \in Nat /\ Cardinality(AtOrAfter(edits, p)) <= m
    BY <1>2, FS_Subset, FS_CardinalityType
  <2>2. p \in AtOrAfter(edits, p) BY <1>1 DEF AtOrAfter
  <2>3. Cardinality(AtOrAfter(edits, p)) # 0 BY <1>2, <2>2, FS_EmptySet
  <2> QED BY <2>1, <2>3
<1>4. ASSUME NEW p \in edits, NEW q \in edits, p.offset > q.offset PROVE rank[p] < rank[q]
  <2>1. AtOrAfter(edits, p) \in SUBSET AtOrAfter(edits, q) BY <1>1, <1>4 DEF AtOrAfter
  <2>2. q \in AtOrAfter(edits, q) /\ q \notin AtOrAfter(edits, p) BY <1>1, <1>4 DEF AtOrAfter
  <2>3. /\ Cardinality(AtOrAfter(edits, p)) <= Cardinality(AtOrAfter(edits, q))
        /\ Cardinality(AtOrAfter(edits, p)) # Cardinality(AtOrAfter(edits, q))
    BY <1>2, <2>1, <2>2, FS_Subset
  <2>4. rank[p] \in Nat /\ rank[q] \in Nat BY <1>3
  <2> QED BY <2>3, <2>4
<1>5. ASSUME NEW p \in edits, NEW q \in edits, p # q PROVE p.offset < q.offset \/ q.offset < p.offset
  BY <1>5 DEF EditSet
<1> HIDE DEF rank
<1>6. rank \in Injection(edits, 1 .. m)
  <2>1. rank \in [edits -> 1 .. m]
    <3>1. DOMAIN rank = edits /\ rank = [p \in edits |-> rank[p]] BY DEF rank
    <3> QED BY <1>3, <3>1
  <2>2. IsInjective(rank)
    <3> SUFFICES ASSUME NEW p \in edits, NEW q \in edits, rank[p] = rank[q], p # q PROVE FALSE
      BY <2>1 DEF IsInjective
    <3>1. rank[p] \in Nat /\ rank[q] \in Nat BY <1>3
    <3>2. CASE p.offset < q.offset BY <1>1, <1>4, <3>1, <3>2
    <3>3. CASE q.offset < p.offset BY <1>1, <1>4, <3>1, <3>3
    <3> QED BY <1>5, <3>2, <3>3
  <2> QED BY <2>1, <2>2 DEF Injection
<1>7. rank \in Surjection(edits, 1 .. m)
  <2>1. IsFiniteSet(1 .. m) /\ Cardinality(1 .. m) = m BY FS_Interval
  <2> QED BY <1>6, <2>1, FS_Injection
<1>8. \A i \in 1 .. m : \E p \in edits : rank[p] = i BY <1>7 DEF Surjection
<1> DEFINE plan == [i \in 1 .. m |-> CHOOSE p \in edits : rank[p] = i]
<1>9. \A i \in 1 .. m : plan[i] \in edits /\ rank[plan[i]] = i BY <1>8
<1>10. plan \in [1 .. m -> edits] BY <1>9
<1> HIDE DEF plan
<1>11. \A i, j \in 1 .. m : i # j => plan[i] # plan[j] BY <1>9
<1>12. Descending(plan, m)
  <2> SUFFICES ASSUME NEW i \in 1 .. m, NEW j \in 1 .. m, i < j PROVE plan[i].offset > plan[j].offset
    BY DEF Descending
  <2>1. PICK p \in edits, q \in edits : p = plan[i] /\ q = plan[j] /\ rank[p] = i /\ rank[q] = j BY <1>9
  <2>2. p # q BY <2>1
  <2>3. ~(p.offset < q.offset)
    <3> SUFFICES ASSUME p.offset < q.offset PROVE FALSE OBVIOUS
    <3>1. rank[q] < rank[p] BY <1>1, <1>4
    <3> QED BY <2>1, <3>1
  <2>4. q.offset < p.offset BY <1>5, <2>2, <2>3
  <2> QED BY <1>1, <2>1, <2>4
<1> QED BY <1>10, <1>11, <1>12

\* A text and the replacements of one file
Replacements(T) == Seq([old : Seq(T), new : Seq(T)])

\* The planned edits of one file are a finite set of edits that do not overlap
LEMMA PlannedIsEditSet ==
  ASSUME NEW T, NEW text \in Seq(T), NEW n \in Nat, Len(text) = n, NEW reps \in Replacements(T),
         EditsAllowed(text, reps)
  PROVE  EditSet(T, n, Planned(text, reps)) /\ IsFiniteSet(Planned(text, reps)) /\ n # 0
<1>1. \A j \in DOMAIN reps : reps[j].old \in Seq(T) /\ reps[j].new \in Seq(T) /\ reps[j].old # <<>>
  <2> SUFFICES ASSUME NEW j \in DOMAIN reps
               PROVE  reps[j].old \in Seq(T) /\ reps[j].new \in Seq(T) /\ reps[j].old # <<>>
    OBVIOUS
  <2>1. PICK R : R = [old : Seq(T), new : Seq(T)] OBVIOUS
  <2>2. reps \in Seq(R) BY <2>1 DEF Replacements
  <2>3. reps[j] \in R BY <2>2
  <2>4. reps[j].old \in Seq(T) /\ reps[j].new \in Seq(T) BY <2>1, <2>3
  <2>5. reps[j].old # <<>> BY DEF EditsAllowed
  <2> QED BY <2>4, <2>5
<1>2. \A j \in DOMAIN reps : Len(reps[j].old) \in Nat \ {0} BY <1>1, EmptySeq
<1>3. \A j \in DOMAIN reps : findAllExact(text, reps[j].old) \subseteq 1 .. n
                             /\ IsFiniteSet(findAllExact(text, reps[j].old))
  <2>1. IsFiniteSet(1 .. n) BY FS_Interval
  <2> QED BY <2>1, FS_Subset DEF findAllExact
<1>4. \A j \in DOMAIN reps : \E i : findAllExact(text, reps[j].old) = {i}
  BY <1>3, FS_Singleton DEF EditsAllowed
<1>5. n # 0
  <2>1. \E j : j \in DOMAIN reps
    <3>1. reps # <<>> BY DEF EditsAllowed
    <3>2. Len(reps) \in Nat \ {0} /\ DOMAIN reps = 1 .. Len(reps) BY <3>1, EmptySeq, LenProperties DEF Replacements
    <3>3. 1 \in DOMAIN reps BY <3>2
    <3> QED BY <3>3
  <2>2. PICK j : j \in DOMAIN reps BY <2>1
  <2>3. PICK i : findAllExact(text, reps[j].old) = {i} BY <1>4, <2>2
  <2>4. i \in findAllExact(text, reps[j].old) BY <2>3
  <2>5. i \in 1 .. n BY <1>3, <2>2, <2>4
  <2> QED BY ONLY <2>5, n \in Nat
<1>6. ASSUME NEW p \in Planned(text, reps)
      PROVE  \E j \in DOMAIN reps : \E i \in findAllExact(text, reps[j].old) :
               p = [offset |-> i, end |-> i + Len(reps[j].old), new |-> reps[j].new, request |-> j]
  BY DEF Planned
<1>7. ASSUME NEW p \in Planned(text, reps)
      PROVE  p.offset \in 1 .. n /\ p.end \in 1 .. n + 1 /\ p.offset < p.end /\ p.new \in Seq(T)
             /\ p.request \in DOMAIN reps
  <2>0. PICK j \in DOMAIN reps : \E i \in findAllExact(text, reps[j].old) :
               p = [offset |-> i, end |-> i + Len(reps[j].old), new |-> reps[j].new, request |-> j]
    BY <1>6
  <2>1. PICK i \in findAllExact(text, reps[j].old) :
               p = [offset |-> i, end |-> i + Len(reps[j].old), new |-> reps[j].new, request |-> j]
    BY <2>0
  <2>2. i \in 1 .. n /\ i + Len(reps[j].old) - 1 <= n BY DEF findAllExact
  <2>3. PICK k \in Nat \ {0} : k = Len(reps[j].old) BY <1>2
  <2>4. p.offset = i /\ p.end = i + k /\ p.new = reps[j].new /\ p.request = j BY <2>1, <2>3
  <2> QED BY <1>1, <2>2, <2>3, <2>4
<1>8. ASSUME NEW p \in Planned(text, reps), NEW q \in Planned(text, reps), p.request = q.request PROVE p = q
  <2>1. PICK j \in DOMAIN reps : \E i \in findAllExact(text, reps[j].old) :
               p = [offset |-> i, end |-> i + Len(reps[j].old), new |-> reps[j].new, request |-> j]
    BY <1>6
  <2>2. PICK i \in findAllExact(text, reps[j].old) :
               p = [offset |-> i, end |-> i + Len(reps[j].old), new |-> reps[j].new, request |-> j]
    BY <2>1
  <2>3. PICK k \in DOMAIN reps : \E h \in findAllExact(text, reps[k].old) :
               q = [offset |-> h, end |-> h + Len(reps[k].old), new |-> reps[k].new, request |-> k]
    BY <1>6
  <2>4. PICK h \in findAllExact(text, reps[k].old) :
               q = [offset |-> h, end |-> h + Len(reps[k].old), new |-> reps[k].new, request |-> k]
    BY <2>3
  <2>5. j = k BY <1>8, <2>2, <2>4
  <2>6. h = i
    <3>1. PICK o : findAllExact(text, reps[j].old) = {o} BY <1>4
    <3>2. i = o /\ h = o BY <2>5, <3>1
    <3> QED BY <3>2
  <2> QED BY ONLY <2>2, <2>4, <2>5, <2>6
<1>9. EditSet(T, n, Planned(text, reps))
  <2>1. \A p, q \in Planned(text, reps) : p # q => p.offset >= q.end \/ q.offset >= p.end
    BY <1>8 DEF EditsAllowed
  <2>2. \A p \in Planned(text, reps) : /\ p.offset \in 1 .. n /\ p.end \in 1 .. n + 1 /\ p.offset < p.end
                                       /\ p.new \in Seq(T)
    BY <1>7
  <2> QED BY <2>1, <2>2 DEF EditSet
<1>10. IsFiniteSet(Planned(text, reps))
  <2> DEFINE at == [p \in Planned(text, reps) |-> p.request]
  <2>1. at \in [Planned(text, reps) -> DOMAIN reps] BY <1>7
  <2>2. IsInjective(at) BY <1>8 DEF IsInjective
  <2>3. at \in Injection(Planned(text, reps), DOMAIN reps) BY <2>1, <2>2 DEF Injection
  <2>4. IsFiniteSet(DOMAIN reps)
    <3>1. DOMAIN reps = 1 .. Len(reps) /\ Len(reps) \in Nat BY LenProperties DEF Replacements
    <3> QED BY <3>1, FS_Interval
  <2> HIDE DEF at
  <2> QED BY <2>3, <2>4, FS_Injection
<1> QED BY <1>5, <1>9, <1>10

\* The edits of one file, made one after the other by descending offset, are
\* the substitution of every planned occurrence at once
LEMMA EditedIsSubstituted ==
  ASSUME NEW T, NEW text \in Seq(T), NEW reps \in Replacements(T), EditsAllowed(text, reps)
  PROVE  /\ Edited(text, reps) = Substituted(text, Planned(text, reps))
         /\ Edited(text, reps) \in Seq(T)
<1>1. PICK n \in Nat : n = Len(text) BY LenProperties
<1>2. PICK edits : edits = Planned(text, reps) OBVIOUS
<1>3. EditSet(T, n, edits) /\ IsFiniteSet(edits) /\ n \in Nat \ {0} BY <1>1, <1>2, PlannedIsEditSet
<1>4. PICK m \in Nat : m = Cardinality(edits) BY <1>3, FS_CardinalityType
<1>5. PICK plan : plan = planExactEdits(text, reps) OBVIOUS
<1>6. /\ plan \in [1 .. m -> edits] /\ Descending(plan, m)
      /\ \A i, j \in 1 .. m : i # j => plan[i] # plan[j]
  <2>1. SetToSeqs(edits) = {f \in [1 .. m -> edits] : \A i, j \in 1 .. m : i # j => f[i] # f[j]}
    BY <1>4 DEF SetToSeqs
  <2>2. \E f \in SetToSeqs(edits) : \A i, j \in DOMAIN f : i < j => f[i].offset > f[j].offset
    <3>1. PICK f \in [1 .. m -> edits] :
                 (\A i, j \in 1 .. m : i # j => f[i] # f[j]) /\ Descending(f, m)
      BY <1>3, <1>4, SortedPlanExists
    <3>2. f \in SetToSeqs(edits) /\ DOMAIN f = 1 .. m BY <2>1, <3>1
    <3> QED BY <3>1, <3>2 DEF Descending
  <2>3. plan = CHOOSE f \in SetToSeqs(edits) : \A i, j \in DOMAIN f : i < j => f[i].offset > f[j].offset
    BY <1>2, <1>5 DEF planExactEdits
  <2>4. plan \in SetToSeqs(edits) /\ \A i, j \in DOMAIN plan : i < j => plan[i].offset > plan[j].offset
    BY <2>2, <2>3
  <2>5. plan \in [1 .. m -> edits] /\ \A i, j \in 1 .. m : i # j => plan[i] # plan[j] BY <2>1, <2>4
  <2> QED BY <2>4, <2>5 DEF Descending
<1>7. Done(plan, 1 .. m) = edits
  <2>1. IsInjective(plan) BY <1>6 DEF IsInjective
  <2>2. plan \in Injection(1 .. m, edits) BY <1>6, <2>1 DEF Injection
  <2>3. Cardinality(1 .. m) = m BY FS_Interval
  <2>4. plan \in Surjection(1 .. m, edits) BY <1>3, <1>4, <2>2, <2>3, FS_Injection
  <2> QED BY <1>6, <2>4 DEF Surjection, Done
<1>8. Edited(text, reps) = FoldLeft(replaceAt, text, plan) BY <1>5 DEF Edited
<1>9. FoldLeft(replaceAt, text, plan) = Substituted(text, Done(plan, 1 .. m))
  BY <1>1, <1>3, <1>6, FoldSubstitutes
<1>10. Substituted(text, edits) \in Seq(T)
  <2>1. PICK g : PrefixTexts(g, T, n, Pieces(text, edits)) /\ Substituted(text, edits) = g[n]
    BY <1>1, <1>3, SubstitutedSteps
  <2> QED BY <1>3, <2>1 DEF PrefixTexts
<1> QED BY <1>2, <1>7, <1>8, <1>9, <1>10

-----------------------------------------------------------------------------
(***************************************************************************)
(* What the packages are                                                   *)
(***************************************************************************)
\* The calls of the other sessions are as they were
OnlyCallOf(s) == \A t \in Sessions : t # s => call'[t] = call[t]

LEMMA EndedHasNoPlan == Planning(NoCall)
<1>1. DOMAIN <<>> = {} OBVIOUS
<1> QED BY <1>1 DEF Planning, NoCall, Readable, KeysApart

LEMMA CallHasIdentifier == ASSUME IInv, NEW s \in Sessions, Active(s) PROVE call[s].id # 0
<1>1. call[s].id \in DOMAIN answer /\ DOMAIN answer = 1 .. Len(answer) BY DEF IInv, Calls, TypeOK
<1> QED BY <1>1

\* A step of one call that publishes nothing
LEMMA PackagesStay ==
  ASSUME Packages, NEW s \in Sessions, OnlyCallOf(s), Planning(call'[s]), skill' = skill, index' = index,
         backups' \subseteq backups
  PROVE  Packages'
<1>1. \A t \in Sessions : Planning(call'[t]) BY DEF Packages, OnlyCallOf
<1>2. \A b \in backups' : Intended(b.package) BY DEF Packages
<1> QED BY <1>1, <1>2 DEF Packages

LEMMA ReturnPlans ==
  ASSUME IInv, NEW s \in Sessions, NEW how, Return(s, how) PROVE OnlyCallOf(s) /\ Planning(call'[s])
BY ReturnMoves, EndedHasNoPlan DEF IInv, OnlyCallOf

\* A call that only changes its place keeps the package that it carries
LEMMA ToPlans ==
  ASSUME IInv, Packages, NEW s \in Sessions, NEW pc, To(s, pc),
         \/ pc = "lstat" /\ IsCreate(s) /\ call[s].pc \in {"load", "walk"}
         \/ /\ pc \in {"move", "publish", "rollback", "cleanup"}
            /\ call[s].pc \in {"checkwalk", "move", "publish"}
  PROVE  OnlyCallOf(s) /\ Planning(call'[s])
<1>1. OnlyCallOf(s) BY ToMoves DEF IInv, Moved, OnlyCallOf
<1>2. /\ call'[s].pc = pc /\ call'[s].id = call[s].id /\ call'[s].input = call[s].input
      /\ call'[s].base = call[s].base /\ call'[s].files = call[s].files
      /\ call'[s].todo = call[s].todo /\ call'[s].read = call[s].read
  BY DEF To, IInv, TypeOK
<1>3. Planning(call[s]) BY DEF Packages
<1>4. CASE pc = "lstat" /\ IsCreate(s) /\ call[s].pc \in {"load", "walk"}
  <2>1. call'[s].input.op = "create" /\ CreateAllowed(call'[s].input) BY <1>2, <1>3, <1>4 DEF Planning, IsCreate
  <2> QED BY <1>1, <1>2, <1>3, <1>4, <2>1 DEF Planning
<1>5. CASE /\ pc \in {"move", "publish", "rollback", "cleanup"}
           /\ call[s].pc \in {"checkwalk", "move", "publish"}
  <2>1. Intended(call[s]) BY <1>3, <1>5 DEF Planning
  <2>2. Intended(call'[s]) BY <1>2, <2>1 DEF Intended
  <2> QED BY <1>1, <1>2, <1>3, <1>5, <2>2 DEF Planning
<1> QED BY <1>4, <1>5

LEMMA InitPackages == ASSUME Init PROVE Packages
<1>1. \A s \in Sessions : Planning(call[s]) BY EndedHasNoPlan DEF Init
<1> QED BY <1>1 DEF Init, Packages

LEMMA BeginPackages ==
  ASSUME IInv, Packages, NEW s \in Sessions, NEW input \in Inputs, Begin(s, input)
  PROVE  Packages'
<1>1. UNCHANGED <<skill, backups, index>> BY DEF Begin, fileVars
<1>2. CASE call' = call
  <2>1. OnlyCallOf(s) /\ Planning(call'[s]) BY <1>2 DEF OnlyCallOf, Packages
  <2> QED BY <1>1, <2>1, PackagesStay
<1>3. CASE /\ input.op = "create" => CreateAllowed(input)
           /\ call' = [call EXCEPT ![s] =
                         [NoCall EXCEPT !.pc = "load", !.id = Len(answer) + 1, !.input = input]]
  <2>1. /\ OnlyCallOf(s) /\ call'[s].pc = "load" /\ call'[s].input = input
        /\ call'[s].todo = {} /\ call'[s].read = <<>>
    BY <1>3 DEF OnlyCallOf, NoCall, IInv, TypeOK
  <2>2. DOMAIN <<>> = {} OBVIOUS
  <2>3. Readable(call'[s].read) /\ KeysApart(call'[s].todo \cup DOMAIN call'[s].read)
    BY <2>1, <2>2 DEF Readable, KeysApart
  <2>4. Planning(call'[s]) BY <1>3, <2>1, <2>3 DEF Planning
  <2> QED BY <1>1, <2>1, <2>4, PackagesStay
<1> QED BY <1>2, <1>3 DEF Begin

\* What a call reads does not touch its plan
LEMMA ReadPackages ==
  ASSUME IInv, Packages, NEW s \in Sessions, UNCHANGED <<skill, backups, index>>, NEW next,
         NEW todo, NEW read, call' = [call EXCEPT ![s].pc = next, ![s].todo = todo, ![s].read = read],
         Readable(read), KeysApart(todo \cup DOMAIN read),
         \/ next = "walk" /\ call[s].pc \in {"load", "walk"}
         \/ next = "checkwalk" /\ call[s].pc \in {"check", "checkwalk"}
  PROVE  Packages'
<1>1. /\ call'[s].pc = next /\ call'[s].id = call[s].id /\ call'[s].input = call[s].input
      /\ call'[s].base = call[s].base /\ call'[s].files = call[s].files /\ OnlyCallOf(s)
      /\ call'[s].todo = todo /\ call'[s].read = read
  BY DEF IInv, TypeOK, OnlyCallOf
<1>2. Planning(call[s]) BY DEF Packages
<1>3. CASE next = "walk" /\ call[s].pc \in {"load", "walk"}
  <2>1. Planning(call'[s]) BY <1>1, <1>2, <1>3 DEF Planning
  <2> QED BY <1>1, <2>1, PackagesStay
<1>4. CASE next = "checkwalk" /\ call[s].pc \in {"check", "checkwalk"}
  <2>1. Intended(call[s]) BY <1>2, <1>4 DEF Planning
  <2>2. Intended(call'[s]) BY <1>1, <2>1 DEF Intended
  <2>3. Planning(call'[s]) BY <1>1, <1>2, <1>4, <2>2 DEF Planning
  <2> QED BY <1>1, <2>3, PackagesStay
<1> QED BY <1>3, <1>4

\* loadPackage lists the paths of one package
Listed(s, next) ==
  call' = [call EXCEPT ![s].pc = next, ![s].todo = DOMAIN skill.files, ![s].read = <<>>]

LEMMA ListPackages ==
  ASSUME IInv, Packages, NEW s \in Sessions, UNCHANGED <<skill, backups, index>>, skill # Absent,
         NEW next, Listed(s, next),
         \/ next = "walk" /\ call[s].pc = "load"
         \/ next = "checkwalk" /\ call[s].pc = "check"
  PROVE  Packages'
<1>1. PICK todo, read : todo = DOMAIN skill.files /\ read = <<>> OBVIOUS
<1>2. call' = [call EXCEPT ![s].pc = next, ![s].todo = todo, ![s].read = read] BY <1>1 DEF Listed
<1>3. DOMAIN read = {} BY <1>1
<1>4. Readable(read) BY <1>3 DEF Readable
<1>5. validateSkillPackage(skill.files) BY DEF Packages, Intended
<1>6. KeysApart(todo \cup DOMAIN read) BY <1>1, <1>3, <1>5 DEF KeysApart, validateSkillPackage
<1> QED BY <1>2, <1>4, <1>6, ReadPackages

\* and reads them one by one, whatever package is there by then
HasRead(s, p) ==
  call' = [call EXCEPT ![s].todo = @ \ {p},
             ![s].read = [q \in DOMAIN @ \cup {p} |-> IF q = p THEN skill.files[p] ELSE @[q]]]

LEMMA ReadOnePackages ==
  ASSUME IInv, Packages, NEW s \in Sessions, UNCHANGED <<skill, backups, index>>,
         NEW p, p \in call[s].todo, p \in DOMAIN skill.files, HasRead(s, p),
         NEW at \in {"walk", "checkwalk"}, call[s].pc = at
  PROVE  Packages'
<1>1. PICK todo, read : /\ todo = call[s].todo \ {p}
                        /\ read = [q \in DOMAIN call[s].read \cup {p} |->
                                     IF q = p THEN skill.files[p] ELSE call[s].read[q]]
  OBVIOUS
<1>2. call' = [call EXCEPT ![s].pc = at, ![s].todo = todo, ![s].read = read]
  BY <1>1 DEF HasRead, IInv, TypeOK
<1>3. Planning(call[s]) BY DEF Packages
<1>4. skill # Absent
  <2>1. Absent.files = <<>> /\ DOMAIN <<>> = {} BY DEF Absent
  <2> QED BY <2>1
<1>5. skill.files[p] \in Seq(Tokens) BY <1>4 DEF Packages, Intended, Readable
<1>6. Readable(read)
  <2>1. DOMAIN read = DOMAIN call[s].read \cup {p} BY <1>1
  <2>2. \A q \in DOMAIN call[s].read : call[s].read[q] \in Seq(Tokens) BY <1>3 DEF Planning, Readable
  <2> QED BY <1>1, <1>5, <2>1, <2>2 DEF Readable
<1>7. todo \cup DOMAIN read = call[s].todo \cup DOMAIN call[s].read BY <1>1
<1>8. KeysApart(todo \cup DOMAIN read) BY <1>3, <1>7 DEF Planning
<1> QED BY <1>2, <1>6, <1>8, ReadPackages

LEMMA WalkPackages ==
  ASSUME IInv, Packages, NEW s \in Sessions, Refuse(s) \/ Load(s) \/ Check(s)
  PROVE  Packages'
<1> USE DEF fileVars
<1>1. UNCHANGED <<skill, backups, index>> BY DEF Refuse, Load, Check, ListFiles, ReadFile
<1>2. ASSUME NEW how, Return(s, how) PROVE Packages'
  <2>1. OnlyCallOf(s) /\ Planning(call'[s]) BY <1>2, ReturnPlans
  <2> QED BY <1>1, <2>1, PackagesStay
<1>3. ASSUME NEW pc, To(s, pc),
             \/ pc = "lstat" /\ IsCreate(s) /\ call[s].pc \in {"load", "walk"}
             \/ pc = "move" /\ call[s].pc = "checkwalk"
      PROVE  Packages'
  <2>1. OnlyCallOf(s) /\ Planning(call'[s]) BY <1>3, ToPlans
  <2> QED BY <1>1, <2>1, PackagesStay
<1>4. ASSUME NEW p \in call[s].todo, p \in DOMAIN skill.files, HasRead(s, p), call[s].pc \in {"walk", "checkwalk"}
      PROVE  Packages'
  BY <1>1, <1>4, ReadOnePackages
<1>5. CASE Refuse(s) BY <1>2, <1>5 DEF Refuse
<1>6. CASE Load(s)
  <2>1. CASE NotThere(s) /\ call[s].pc \in {"load", "walk"} BY <1>2, <1>3, <2>1 DEF NotThere
  <2>2. CASE ListFiles(s, "load", "walk", NotThere(s))
    <3>1. CASE skill # Absent /\ Listed(s, "walk") BY <1>1, <2>2, <3>1, ListPackages DEF ListFiles
    <3>2. call[s].pc = "load" BY <2>2 DEF ListFiles
    <3>3. \/ NotThere(s)
          \/ skill # Absent /\ Listed(s, "walk")
      BY <2>2, Zenon DEF ListFiles, Listed
    <3> QED BY <2>1, <3>1, <3>2, <3>3
  <2>3. CASE ReadFile(s, "walk", NotThere(s)) BY <1>4, <2>1, <2>3 DEF ReadFile, HasRead
  <2> QED BY <1>6, <2>2, <2>3 DEF Load
<1>7. CASE Check(s)
  <2>1. CASE ListFiles(s, "check", "checkwalk", Return(s, "error"))
    <3>1. CASE skill # Absent /\ Listed(s, "checkwalk") BY <1>1, <2>1, <3>1, ListPackages DEF ListFiles
    <3> QED BY <1>2, <2>1, <3>1 DEF ListFiles, Listed
  <2>2. CASE ReadFile(s, "checkwalk", Return(s, "error")) BY <1>2, <1>4, <2>2 DEF ReadFile, HasRead
  <2>3. CASE Loaded(s, "checkwalk") /\ (To(s, "move") \/ Return(s, "error")) BY <1>2, <1>3, <2>3 DEF Loaded
  <2> QED BY <1>7, <2>1, <2>2, <2>3 DEF Check
<1> QED BY <1>5, <1>6, <1>7

\* The files of a request are text, and so is what they are added to
LEMMA WithFilesReads ==
  ASSUME NEW files, Readable(files), NEW added, \A f \in Range(added) : f.text \in Seq(Tokens)
  PROVE  Readable(WithFiles(files, added))
<1> DEFINE all == DOMAIN files \cup {f.path : f \in Range(added)}
<1>1. DOMAIN WithFiles(files, added) = all BY DEF WithFiles
<1>2. ASSUME NEW p \in all PROVE WithFiles(files, added)[p] \in Seq(Tokens)
  <2>1. CASE p \in DOMAIN files BY <1>2, <2>1 DEF WithFiles, Readable
  <2>2. CASE p \notin DOMAIN files
    <3>1. \E f \in Range(added) : f.path = p BY <2>2
    <3>2. PICK f : f = CHOOSE g \in Range(added) : g.path = p OBVIOUS
    <3>3. f \in Range(added) BY <3>1, <3>2
    <3>4. WithFiles(files, added)[p] = f.text BY <1>2, <2>2, <3>2 DEF WithFiles
    <3> QED BY <3>3, <3>4
  <2> QED BY <2>1, <2>2
<1> QED BY <1>1, <1>2 DEF Readable

\* What an update plans is what it was asked for, and it is text again
LEMMA UpdatedIsRequested ==
  ASSUME NEW files, Readable(files), KeysApart(DOMAIN files), NEW input \in Inputs, input.op # "create",
         UpdateAllowed(files, input)
  PROVE  Updated(files, input) = Requested(files, input) /\ Readable(Updated(files, input))
<1> DEFINE For(p) == {e \in Range(input.edits) : Key(e.path) = Key(p)}
           Plan(p) == IF For(p) = {} THEN files[p] ELSE Edited(files[p], (CHOOSE e \in For(p) : TRUE).reps)
           Wish(p) == IF For(p) = {} THEN files[p]
                      ELSE Substituted(files[p], Planned(files[p], (CHOOSE e \in For(p) : TRUE).reps))
<1>1. ASSUME NEW p \in DOMAIN files PROVE Plan(p) = Wish(p) /\ Plan(p) \in Seq(Tokens)
  <2>1. files[p] \in Seq(Tokens) BY DEF Readable
  <2>2. CASE For(p) = {} BY <2>1, <2>2
  <2>3. CASE For(p) # {}
    <3>1. PICK e : e = CHOOSE d \in For(p) : TRUE OBVIOUS
    <3>2. e \in Range(input.edits) /\ Key(e.path) = Key(p) BY <2>3, <3>1
    <3>3. e.reps \in Replacements(Tokens) BY <3>2, TextAssumption DEF Replacements
    <3>4. FileOf(files, e.path) = p
      <4>1. FileOf(files, e.path) \in DOMAIN files /\ Key(FileOf(files, e.path)) = Key(e.path)
        BY <3>2 DEF FileOf
      <4> QED BY <3>2, <4>1 DEF KeysApart
    <3>5. EditsAllowed(files[p], e.reps) BY <3>2, <3>4 DEF UpdateAllowed
    <3>6. /\ Edited(files[p], e.reps) = Substituted(files[p], Planned(files[p], e.reps))
          /\ Edited(files[p], e.reps) \in Seq(Tokens)
      BY <2>1, <3>3, <3>5, EditedIsSubstituted
    <3> QED BY <2>3, <3>1, <3>6
  <2> QED BY <2>2, <2>3
<1>2. Updated(files, input) = WithFiles([p \in DOMAIN files |-> Plan(p)], input.files) BY DEF Updated
<1>3. Requested(files, input) = WithFiles([p \in DOMAIN files |-> Wish(p)], input.files) BY DEF Requested
<1> HIDE DEF Plan, Wish
<1>4. [p \in DOMAIN files |-> Plan(p)] = [p \in DOMAIN files |-> Wish(p)] BY <1>1
<1>5. Readable([p \in DOMAIN files |-> Plan(p)]) BY <1>1 DEF Readable
<1>6. \A f \in Range(input.files) : f.text \in Seq(Tokens) BY TextAssumption
<1>7. Readable(WithFiles([p \in DOMAIN files |-> Plan(p)], input.files)) BY <1>5, <1>6, WithFilesReads
<1> QED BY <1>2, <1>3, <1>4, <1>7

LEMMA CreatedReads ==
  ASSUME NEW input \in Inputs, input.op = "create" PROVE Readable(Created(input))
<1>1. PICK files : files = [p \in {"SKILL.md"} |-> input.md] OBVIOUS
<1>2. Readable(files) BY <1>1, TextAssumption DEF Readable
<1>3. \A f \in Range(input.files) : f.text \in Seq(Tokens) BY TextAssumption
<1>4. Readable(WithFiles(files, input.files)) BY <1>2, <1>3, WithFilesReads
<1> QED BY <1>1, <1>4 DEF Created

\* A plan becomes a package: of an update on what was read, or of a creation
LEMMA PlanPackages ==
  ASSUME IInv, Packages, NEW s \in Sessions, Prepare(s) \/ Lstat(s)
  PROVE  Packages'
<1> USE DEF fileVars
<1>1. UNCHANGED <<skill, backups, index>> BY DEF Prepare, Lstat
<1>2. CASE Return(s, "error")
  <2>1. OnlyCallOf(s) /\ Planning(call'[s]) BY <1>2, ReturnPlans
  <2> QED BY <1>1, <2>1, PackagesStay
<1>3. Active(s) BY DEF Prepare, Lstat, Loaded, Active
<1>4. call[s].id # 0 BY <1>3, CallHasIdentifier
<1>5. CASE /\ Prepare(s) /\ ~IsCreate(s) /\ UpdateAllowed(call[s].read, call[s].input)
           /\ validateSkillPackage(Updated(call[s].read, call[s].input))
           /\ call' = [call EXCEPT ![s].pc = "check", ![s].base = call[s].read,
                                   ![s].files = Updated(call[s].read, call[s].input)]
  <2>1. /\ call'[s].pc = "check" /\ call'[s].id = call[s].id /\ call'[s].input = call[s].input
        /\ call'[s].base = call[s].read /\ call'[s].files = Updated(call[s].read, call[s].input)
        /\ call'[s].todo = call[s].todo /\ call'[s].read = call[s].read /\ OnlyCallOf(s)
    BY <1>5 DEF IInv, TypeOK, OnlyCallOf
  <2>2. Planning(call[s]) /\ call[s].todo = {} /\ call[s].pc = "walk" BY <1>5 DEF Packages, Prepare, Loaded
  <2>3. /\ call[s].input \in Inputs /\ call[s].input.op # "create"
        /\ Readable(call[s].read) /\ KeysApart(DOMAIN call[s].read)
    BY <1>5, <2>2 DEF Planning, IsCreate
  <2>4. /\ Updated(call[s].read, call[s].input) = Requested(call[s].read, call[s].input)
        /\ Readable(Updated(call[s].read, call[s].input))
    BY <1>5, <2>3, UpdatedIsRequested
  <2>5. Intended(call'[s]) BY <1>4, <1>5, <2>1, <2>4 DEF Intended
  <2>6. Planning(call'[s]) BY <2>1, <2>2, <2>5 DEF Planning
  <2> QED BY <1>1, <2>1, <2>6, PackagesStay
<1>6. CASE Lstat(s) /\ call' = [call EXCEPT ![s].pc = "put", ![s].files = Created(call[s].input)]
  <2>1. /\ call'[s].pc = "put" /\ call'[s].id = call[s].id /\ call'[s].input = call[s].input
        /\ call'[s].files = Created(call[s].input) /\ OnlyCallOf(s)
        /\ call'[s].todo = call[s].todo /\ call'[s].read = call[s].read
    BY <1>6 DEF IInv, TypeOK, OnlyCallOf
  <2>2. Planning(call[s]) /\ call[s].pc = "lstat" BY <1>6 DEF Packages, Lstat
  <2>3. call[s].input.op = "create" /\ CreateAllowed(call[s].input) /\ call[s].input \in Inputs
    BY <2>2 DEF Planning
  <2>4. Requested(call'[s].base, call'[s].input) = call'[s].files BY <2>1, <2>3 DEF Requested
  <2>5. validateSkillPackage(call'[s].files) BY <2>1, <2>3 DEF CreateAllowed
  <2>6. Readable(call'[s].files) BY <2>1, <2>3, CreatedReads
  <2>7. Intended(call'[s]) BY <1>4, <2>1, <2>4, <2>5, <2>6 DEF Intended
  <2>8. Planning(call'[s]) BY <2>1, <2>2, <2>7 DEF Planning
  <2> QED BY <1>1, <2>1, <2>8, PackagesStay
<1> QED BY <1>2, <1>5, <1>6 DEF Prepare, Lstat

\* The package that is renamed to the skill's name is the one its call carries
LEMMA PackageIsIntended ==
  ASSUME Packages, NEW s \in Sessions, call[s].pc \in {"put", "publish"}
  PROVE  Intended(Package(s))
<1>1. Intended(call[s]) BY DEF Packages, Planning
<1> QED BY <1>1 DEF Package, Intended

\* A step of one call that renames directories
LEMMA PackagesMove ==
  ASSUME Packages, NEW s \in Sessions, OnlyCallOf(s), Planning(call'[s]), index' = index,
         skill' # Absent => Intended(skill'), \A b \in backups' : Intended(b.package)
  PROVE  Packages'
<1>1. \A t \in Sessions : Planning(call'[t]) BY DEF Packages, OnlyCallOf
<1> QED BY <1>1 DEF Packages

LEMMA RenamePackages ==
  ASSUME IInv, Packages, NEW s \in Sessions,
         CreatePublish(s) \/ MoveAside(s) \/ ReplacePublish(s) \/ Rollback(s) \/ Cleanup(s)
  PROVE  Packages'
<1>1. index' = index BY DEF CreatePublish, MoveAside, ReplacePublish, Rollback, Cleanup
<1>2. OnlyCallOf(s) /\ Planning(call'[s])
  <2>1. ASSUME NEW how, Return(s, how) PROVE OnlyCallOf(s) /\ Planning(call'[s]) BY <2>1, ReturnPlans
  <2>2. ASSUME NEW pc \in {"publish", "cleanup", "rollback"}, To(s, pc), call[s].pc \in {"move", "publish"}
        PROVE  OnlyCallOf(s) /\ Planning(call'[s])
    BY <2>2, ToPlans
  <2> QED BY <2>1, <2>2 DEF CreatePublish, MoveAside, ReplacePublish, Rollback, Cleanup
<1>3. skill # Absent => Intended(skill) BY DEF Packages
<1>4. \A b \in backups : Intended(b.package) BY DEF Packages
<1>5. skill' # Absent => Intended(skill')
  <2>1. CASE CreatePublish(s) BY <1>3, <2>1, PackageIsIntended DEF CreatePublish
  <2>2. CASE ReplacePublish(s) BY <1>3, <2>2, PackageIsIntended DEF ReplacePublish
  <2>3. CASE MoveAside(s) BY <1>3, <2>3 DEF MoveAside
  <2>4. CASE Rollback(s) BY <1>3, <1>4, <2>4 DEF Rollback, Backup
  <2>5. CASE Cleanup(s) BY <1>3, <2>5 DEF Cleanup
  <2> QED BY <2>1, <2>2, <2>3, <2>4, <2>5
<1>6. \A b \in backups' : Intended(b.package)
  <2>1. CASE MoveAside(s)
    <3>1. CASE backups' = backups BY <1>4, <3>1
    <3>2. CASE skill # Absent /\ backups' = backups \cup {[call |-> call[s].id, package |-> skill]}
      <4>1. [call |-> call[s].id, package |-> skill].package = skill OBVIOUS
      <4> QED BY <1>3, <1>4, <3>2, <4>1
    <3> QED BY <2>1, <3>1, <3>2 DEF MoveAside
  <2>2. CASE backups' \subseteq backups BY <1>4, <2>2
  <2> QED BY <2>1, <2>2 DEF CreatePublish, ReplacePublish, Rollback, Cleanup, Backup
<1> QED BY <1>1, <1>2, <1>5, <1>6, PackagesMove

\* What the host seeds is the default package; a listing finds a definition
LEMMA HostPackages ==
  ASSUME IInv, Packages, Open \/ MakeRoot \/ SeedPublish \/ WriteMarker \/ Own \/ LoadSkills
                         \/ HostRestart \/ SandboxCrash \/ UNCHANGED vars
  PROVE  Packages'
<1> USE DEF fileVars, vars
<1>1. backups' = backups
  BY DEF Open, MakeRoot, SeedPublish, WriteMarker, Own, LoadSkills, HostRestart, SandboxCrash
<1>2. \A s \in Sessions : Planning(call'[s])
  <2>1. CASE SandboxCrash BY <2>1, EndedHasNoPlan DEF SandboxCrash
  <2>2. CASE call' = call BY <2>2 DEF Packages
  <2> QED BY <2>1, <2>2 DEF Open, MakeRoot, SeedPublish, WriteMarker, Own, LoadSkills, HostRestart
<1>3. skill' # Absent => Intended(skill')
  <2>1. CASE skill' = skill BY <2>1 DEF Packages
  <2>2. CASE skill' = Seeded
    <3>1. Seeded.files = Default /\ Seeded.id = 0 BY DEF Seeded, Absent
    <3>2. Readable(Default) BY TextAssumption DEF Readable
    <3> QED BY <2>2, <3>1, <3>2, DefaultAssumption DEF Intended
  <2> QED BY <2>1, <2>2 DEF Open, MakeRoot, SeedPublish, WriteMarker, Own, LoadSkills, HostRestart, SandboxCrash
<1>4. index' # "skipped"
  <2>1. CASE index' = index BY <2>1 DEF Packages
  <2>2. CASE LoadSkills
    <3>1. PICK text \in listRooted : index' = IF parseSkill(text) THEN "listed" ELSE "skipped"
      BY <2>2 DEF LoadSkills
    <3>2. "SKILL.md" \in DOMAIN skill.files /\ text = skill.files["SKILL.md"] BY <3>1 DEF listRooted
    <3>3. skill # Absent
      <4>1. Absent.files = <<>> /\ DOMAIN <<>> = {} BY DEF Absent
      <4> QED BY <3>2, <4>1
    <3>4. validateSkillPackage(skill.files) BY <3>3 DEF Packages, Intended
    <3>5. parseSkill(text) BY <3>2, <3>4 DEF validateSkillPackage
    <3> QED BY <3>1, <3>5
  <2> QED BY <2>1, <2>2 DEF Open, MakeRoot, SeedPublish, WriteMarker, Own, HostRestart, SandboxCrash
<1>5. \A b \in backups' : Intended(b.package) BY <1>1 DEF Packages
<1> QED BY <1>2, <1>3, <1>4, <1>5 DEF Packages

LEMMA NextPackages == ASSUME IInv, Packages, [Next]_vars PROVE Packages'
<1>1. ASSUME NEW s \in Sessions, Call(s) PROVE Packages'
  BY <1>1, BeginPackages, WalkPackages, PlanPackages, RenamePackages DEF Call
<1> QED BY <1>1, HostPackages DEF Next

\* The skill, its backups and every package on its way to either is valid and
\* is all of the defaults or all that one call was asked for: Store never
\* publishes, moves aside or puts back a mixture.
THEOREM EveryPackageIsIntended == Spec => []Packages
<1>1. Init => Packages BY InitPackages
<1>2. IInv /\ Packages /\ [Next]_vars => Packages' BY NextPackages
<1> QED BY <1>1, <1>2, Inductive, PTL DEF Spec

\* Whatever crashes, fails or interleaves, the directory of the skill holds all
\* files of the defaults or of one create_skill or update_skill, each with
\* exactly the edits that call asked for, and LoadSkills never skips it.
THEOREM PublishedAsAsked == Spec => []PublishedIsPlanned
<1>1. Packages => PublishedIsPlanned BY DEF Packages, Intended, PublishedIsPlanned
<1> QED BY <1>1, EveryPackageIsIntended, PTL
=============================================================================
