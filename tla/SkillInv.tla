------------------------------- MODULE SkillInv -------------------------------
(***************************************************************************)
(* The inductive invariant behind AnswerIsTrue and NothingVanishes: which  *)
(* calls have published what (Calls), and that a skill away from its name  *)
(* has a backup that no clean-up of a finished call will take (Kept).      *)
(* Packages adds what every package is made of, wherever it lies.          *)
(***************************************************************************)
EXTENDS SkillStore

Active(s) == call[s].pc # "idle"

\* What a call looks like, whatever it has read and planned.
TypeOK ==
  /\ DOMAIN call = Sessions
  /\ \A s \in Sessions :
       /\ DOMAIN call[s] = {"pc", "id", "input", "todo", "read", "base", "files"}
       /\ call[s].pc \in {"idle", "load", "walk", "lstat", "put", "check", "checkwalk", "move",
                          "publish", "rollback", "cleanup"}
  /\ answer \in Seq({"none", "ok", "error"})
  /\ published \in SUBSET Nat

\* A call under way has no answer yet, an identifier of its own, and has
\* published its package exactly if only its clean-up is left.
Calls ==
  /\ \A s \in Sessions : Active(s) =>
       /\ call[s].id \in DOMAIN answer /\ answer[call[s].id] = "none"
       /\ call[s].id \in published <=> call[s].pc = "cleanup"
  /\ \A s, t \in Sessions : Active(s) /\ Active(t) /\ call[s].id = call[t].id => s = t
  /\ \A id \in published : id <= Len(answer)

\* While the skill is not at its name, a backup of it is not about to be removed.
ToBeRemoved(b) == \E s \in Sessions : call[s].pc = "cleanup" /\ b.call = call[s].id
Kept ==
  /\ \A b \in backups : b.package # Absent
  /\ published # {} /\ skill = Absent => \E b \in backups : ~ToBeRemoved(b)

\* Every file of a package is text, and no two paths differ only in case.
Readable(files) == \A p \in DOMAIN files : files[p] \in Seq(Tokens)
KeysApart(paths) == \A p, q \in paths : p # q => Key(p) # Key(q)

\* A package, published, moved aside or carried by a call, is valid, and all of
\* the defaults or all that one call was asked for.
Intended(p) ==
  /\ validateSkillPackage(p.files) /\ Readable(p.files)
  /\ p.files = IF p.id = 0 THEN Default ELSE Requested(p.base, p.input)

\* What a call knows before it has a package, and that it carries one afterwards.
\* What it reads may be of several packages, but its paths are of one.
Planning(c) ==
  /\ c.pc # "idle" => c.input \in Inputs
  /\ c.pc = "lstat" => c.input.op = "create"
  /\ c.pc \in {"load", "walk", "lstat"} /\ c.input.op = "create" => CreateAllowed(c.input)
  /\ Readable(c.read) /\ KeysApart(c.todo \cup DOMAIN c.read)
  /\ c.pc \in {"put", "check", "checkwalk", "move", "publish", "rollback", "cleanup"} => Intended(c)

\* Every package is intended, wherever it is, and no listing has skipped one.
Packages ==
  /\ \A s \in Sessions : Planning(call[s])
  /\ skill # Absent => Intended(skill)
  /\ \A b \in backups : Intended(b.package)
  /\ index # "skipped"

\* The inductive invariant: calls, answers, the skill and its backups agree.
IInv == TypeOK /\ Calls /\ AnswerIsTrue /\ Kept
=============================================================================
