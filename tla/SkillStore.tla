----------------------------- MODULE SkillStore -----------------------------
(***************************************************************************)
(* One skill of one user: the tools create_skill and update_skill that     *)
(* plan a whole package, the file store that publishes it with directory   *)
(* renames, the seeding of the default skills when the host opens the      *)
(* user's workspace, and the listing that a new session starts with.       *)
(*                                                                         *)
(* A session's agent makes one tool call at a time, and every session has  *)
(* a Store, and so a mutex, of its own: nothing but the file system orders *)
(* the calls of two sessions.  Each access of a shared directory is        *)
(* therefore a step; the stage-* and backup-* directories have random      *)
(* names, and belong to their call.                                        *)
(*                                                                         *)
(* A text is a sequence of tokens.  A package is a function from paths to  *)
(* texts.  A file of a request says in "fits" whether it is UTF-8 text     *)
(* within its size limit and executable only where that is allowed.        *)
(***************************************************************************)
EXTENDS Naturals, Sequences, SequencesExt, FiniteSets

CONSTANTS
  Sessions,     \* sessions whose agents use the skill tools at once
  Tokens,       \* what texts are made of
  Default,      \* the package the platform ships under this name
  Inputs,       \* the arguments an agent may give a skill tool
  Paths, GoodPaths,  \* paths of the requests; those that normalise to themselves
  Key(_),       \* strings.ToLower of a path
  Inside(_, _), \* the first path is below the second one
  MaxFiles,     \* maxSkillFiles
  MaxFileTokens, MaxTokens,  \* maxSkillFileBytes, maxSkillPackageBytes
  MaxCalls,     \* tool calls, at most
  MaxFaults,    \* failing renames and removals, at most
  MaxCrashes    \* crashes of the sandbox and restarts of the host, at most

ASSUME SkillAssumption ==
  /\ IsFiniteSet(Sessions) /\ GoodPaths \subseteq Paths /\ Default # <<>>
  /\ {MaxFiles, MaxFileTokens, MaxTokens, MaxCalls, MaxFaults, MaxCrashes} \subseteq Nat

\* The texts of the defaults and of the arguments.
ASSUME TextAssumption ==
  /\ \A p \in DOMAIN Default : Default[p] \in Seq(Tokens)
  /\ \A input \in Inputs :
       /\ \A f \in Range(input.files) : f.text \in Seq(Tokens)
       /\ IF input.op = "create" THEN input.md \in Seq(Tokens)
          ELSE \A e \in Range(input.edits) : e.reps \in Seq([old : Seq(Tokens), new : Seq(Tokens)])

VARIABLES
  skill,      \* the directory <skills>/<name>, or Absent
  backups,    \* the backup-* directories below <skills>/.tmp, by call
  ships,      \* the platform's defaults: nothing, other skills only, or this one too
  root,       \* <skills>: none, the host's or the workload's
  marker,     \* the file .skills-initialized exists
  host,       \* the host opening the user's workspace
  call,       \* what each session's agent is doing
  answer,     \* what each tool call has returned
  index,      \* how the latest listing treated the skill
  faults, crashes,
  published   \* history: the calls whose package has been at <name>

fileVars == <<skill, backups, root, marker>>
vars == <<fileVars, ships, host, call, answer, index, faults, crashes, published>>

Absent == [id |-> 0, files |-> <<>>, base |-> <<>>, input |-> <<>>]
Seeded == [Absent EXCEPT !.files = Default]
NoCall == [pc |-> "idle", id |-> 0, input |-> <<>>, todo |-> {}, read |-> <<>>,
           base |-> <<>>, files |-> <<>>]

Init ==
  /\ skill = Absent /\ backups = {} /\ ships \in {"nothing", "others", "this"}
  /\ root = "none" /\ marker = FALSE /\ host = "closed"
  /\ call = [s \in Sessions |-> NoCall]
  /\ answer = <<>> /\ index = "none"
  /\ faults = 0 /\ crashes = 0 /\ published = {}

---------------------------------------------------------------------------
(* Exact replacement: every old text occurs once in the file, no two       *)
(* occurrences overlap, and they are replaced from the last to the first.  *)

findAllExact(text, old) ==
  {i \in 1 .. Len(text) : /\ i + Len(old) - 1 <= Len(text)
                          /\ SubSeq(text, i, i + Len(old) - 1) = old}

replaceAt(text, edit) ==
  SubSeq(text, 1, edit.offset - 1) \o edit.new
    \o SubSeq(text, edit.end, Len(text))

Planned(text, reps) ==
  UNION {{[offset |-> i, end |-> i + Len(reps[j].old), new |-> reps[j].new, request |-> j] :
            i \in findAllExact(text, reps[j].old)} : j \in DOMAIN reps}

EditsAllowed(text, reps) ==
  /\ reps # <<>>
  /\ \A j \in DOMAIN reps :
       reps[j].old # <<>> /\ Cardinality(findAllExact(text, reps[j].old)) = 1
  /\ \A p, q \in Planned(text, reps) :
       p.request # q.request => p.offset >= q.end \/ q.offset >= p.end

\* The plan of planExactEdits, by descending offset.
planExactEdits_Bug(text, reps) ==
  CHOOSE plan \in SetToSeqs(Planned(text, reps)) :
    \A i, j \in DOMAIN plan : i < j => plan[i].offset < plan[j].offset

planExactEdits(text, reps) ==
  CHOOSE plan \in SetToSeqs(Planned(text, reps)) :
    \A i, j \in DOMAIN plan : i < j => plan[i].offset > plan[j].offset

Edited(text, reps) == FoldLeft(replaceAt, text, planExactEdits(text, reps))

---------------------------------------------------------------------------
(* Packages.                                                               *)

\* A SKILL.md is a definition when it starts with front matter that names
\* the skill and describes it.
parseSkill(text) == text # <<>> /\ text[1] = "front"

normalizeSkillFile(f) == f.path \in GoodPaths /\ Key(f.path) # Key("SKILL.md") /\ f.fits

\* The hash covers each path with its content.  It also covers the executable
\* bit, which no tool changes for a file that is there.
packageRevision(files) == {<<p, files[p]>> : p \in DOMAIN files}

TotalTokens(files) == FoldLeft(LAMBDA n, p : n + Len(files[p]), 0, SetToSeq(DOMAIN files))

\* Under edits a text stays UTF-8 and a file keeps its executable bit, so of the
\* checks of each file only that of its size can fail.
validateSkillPackage(files) ==
  /\ DOMAIN files # {} /\ Cardinality(DOMAIN files) <= MaxFiles
  /\ \A p, q \in DOMAIN files : p # q => Key(p) # Key(q) /\ ~Inside(p, q)
  /\ \A p \in DOMAIN files : Len(files[p]) <= MaxFileTokens
  /\ TotalTokens(files) <= MaxTokens
  /\ "SKILL.md" \in DOMAIN files
  /\ parseSkill(files["SKILL.md"])

\* What is shipped (deploy/defaults/skills) is a package the tools would accept.
ASSUME DefaultAssumption == validateSkillPackage(Default)

\* The files of a request added to a package; the paths are distinct.
WithFiles(files, added) ==
  [p \in DOMAIN files \cup {f.path : f \in Range(added)} |->
     IF p \in DOMAIN files THEN files[p]
     ELSE (CHOOSE f \in Range(added) : f.path = p).text]

Distinct(paths) == \A i, j \in DOMAIN paths : i # j => Key(paths[i]) # Key(paths[j])
PathsOf(seq) == [i \in DOMAIN seq |-> seq[i].path]

Created(input) == WithFiles([p \in {"SKILL.md"} |-> input.md], input.files)

CreateAllowed(input) ==
  /\ \A f \in Range(input.files) : normalizeSkillFile(f)
  /\ Distinct(PathsOf(input.files))
  /\ validateSkillPackage(Created(input))

\* The edits of update_skill find their file whatever the case of its path.
FileOf(files, path) == CHOOSE p \in DOMAIN files : Key(p) = Key(path)

UpdateAllowed(files, input) ==
  /\ Distinct(PathsOf(input.edits))
  /\ \A e \in Range(input.edits) :
       /\ e.path \in GoodPaths
       /\ \E p \in DOMAIN files : Key(p) = Key(e.path)
       /\ EditsAllowed(files[FileOf(files, e.path)], e.reps)
  /\ \A f \in Range(input.files) :
       normalizeSkillFile(f) /\ \A p \in DOMAIN files : Key(p) # Key(f.path)
  /\ Distinct(PathsOf(input.files))

Updated(files, input) ==
  WithFiles([p \in DOMAIN files |->
               LET es == {e \in Range(input.edits) : Key(e.path) = Key(p)}
               IN  IF es = {} THEN files[p]
                   ELSE Edited(files[p], (CHOOSE e \in es : TRUE).reps)],
            input.files)

---------------------------------------------------------------------------
(* A tool call.  Begin checks the arguments; Load walks the directory file *)
(* by file, here for the plan and in Replace once more for the revision.   *)

To(s, pc) == call' = [call EXCEPT ![s].pc = pc]
Return(s, how) ==
  /\ call' = [call EXCEPT ![s] = NoCall]
  /\ answer' = [answer EXCEPT ![call[s].id] = how]

\* The arguments that are checked before the store is read: all of a new
\* package, and that an update asks for something.
Begin(s, input) ==
  /\ host = "open" /\ call[s].pc = "idle" /\ Len(answer) < MaxCalls
  /\ IF IF input.op = "create" THEN CreateAllowed(input)
                               ELSE input.edits # <<>> \/ input.files # <<>>
     THEN /\ answer' = Append(answer, "none")
          /\ call' = [call EXCEPT ![s] =
                        [NoCall EXCEPT !.pc = "load", !.id = Len(answer) + 1, !.input = input]]
     ELSE answer' = Append(answer, "error") /\ UNCHANGED call
  /\ UNCHANGED <<fileVars, ships, host, index, faults, crashes, published>>

\* An error before anything is published: a cancelled task, a directory that cannot be opened, read or staged.  The stage is removed.
Refuse(s) ==
  /\ call[s].pc \in {"load", "walk", "check", "checkwalk", "lstat"}
  /\ Return(s, "error")
  /\ UNCHANGED <<fileVars, ships, host, index, faults, crashes, published>>

IsCreate(s) == call[s].input.op = "create"
MayOpen == root = "workload"

\* loadPackage: the entries of the directory.
ListFiles(s, at, next, missing) ==
  /\ call[s].pc = at /\ MayOpen
  /\ IF skill = Absent
     THEN missing
     ELSE call' = [call EXCEPT ![s].pc = next, ![s].todo = DOMAIN skill.files,
                               ![s].read = <<>>] /\ UNCHANGED answer
  /\ UNCHANGED <<fileVars, ships, host, index, faults, crashes, published>>

\* loadPackage: the first file still to be read, by its path.
ReadFile(s, at, missing) ==
  /\ call[s].pc = at /\ call[s].todo # {}
  /\ LET p == CHOOSE p \in call[s].todo : TRUE
     IN  IF p \notin DOMAIN skill.files
         THEN missing
         ELSE /\ call' = [call EXCEPT ![s].todo = @ \ {p},
                            ![s].read = [q \in DOMAIN @ \cup {p} |->
                              IF q = p THEN skill.files[p] ELSE @[q]]]
              /\ UNCHANGED answer
  /\ UNCHANGED <<fileVars, ships, host, index, faults, crashes, published>>

\* For create_skill a package that is not there is what it needs.
NotThere(s) ==
  IF IsCreate(s) THEN To(s, "lstat") /\ UNCHANGED answer ELSE Return(s, "error")

Load(s) ==
  \/ ListFiles(s, "load", "walk", NotThere(s))
  \/ ReadFile(s, "walk", NotThere(s))

Loaded(s, at) == call[s].pc = at /\ call[s].todo = {}

\* prepare: a package that exists ends create_skill; update_skill plans on it.

Prepare(s) ==
  /\ Loaded(s, "walk")
  /\ LET c == call[s]
     IN  IF /\ ~IsCreate(s) /\ UpdateAllowed(c.read, c.input)
            /\ validateSkillPackage(Updated(c.read, c.input))
         THEN /\ call' = [call EXCEPT ![s].pc = "check", ![s].base = c.read,
                                      ![s].files = Updated(c.read, c.input)]
              /\ UNCHANGED answer
         ELSE Return(s, "error")
  /\ UNCHANGED <<fileVars, ships, host, index, faults, crashes, published>>

---------------------------------------------------------------------------
(* Store.Create: the name is free, the package is staged, and the rename   *)
(* does not replace a directory that holds files.                          *)

Lstat(s) ==
  /\ call[s].pc = "lstat" /\ MayOpen
  /\ IF skill = Absent
     THEN /\ call' = [call EXCEPT ![s].pc = "put", ![s].files = Created(call[s].input)]
          /\ UNCHANGED answer
     ELSE Return(s, "error")
  /\ UNCHANGED <<fileVars, ships, host, index, faults, crashes, published>>

Package(s) == [id |-> call[s].id, files |-> call[s].files, base |-> call[s].base,
               input |-> call[s].input]

CreatePublish(s) ==
  /\ call[s].pc = "put"
  /\ \/ /\ skill = Absent
        /\ skill' = Package(s) /\ published' = published \cup {call[s].id}
        /\ Return(s, "ok") /\ UNCHANGED faults
     \/ /\ skill # Absent
        /\ Return(s, "error") /\ UNCHANGED <<skill, published, faults>>
     \/ /\ faults < MaxFaults /\ faults' = faults + 1
        /\ Return(s, "error") /\ UNCHANGED <<skill, published>>
  /\ UNCHANGED <<backups, root, marker, ships, host, index, crashes>>

---------------------------------------------------------------------------
(* Store.Replace: the revision is compared, the new package staged, the    *)
(* current one moved aside, and the new one moved to its name.             *)

Check(s) ==
  \/ ListFiles(s, "check", "checkwalk", Return(s, "error"))
  \/ ReadFile(s, "checkwalk", Return(s, "error"))
  \/ /\ Loaded(s, "checkwalk")
     /\ IF packageRevision(call[s].read) = packageRevision(call[s].base)
        THEN To(s, "move") /\ UNCHANGED answer
        ELSE Return(s, "error")
     /\ UNCHANGED <<fileVars, ships, host, index, faults, crashes, published>>

MoveAside(s) ==
  /\ call[s].pc = "move"
  /\ \/ /\ skill # Absent
        /\ backups' = backups \cup {[call |-> call[s].id, package |-> skill]}
        /\ skill' = Absent
        /\ To(s, "publish") /\ UNCHANGED <<answer, faults>>
     \/ /\ skill = Absent
        /\ Return(s, "error") /\ UNCHANGED <<skill, backups, faults>>
     \/ /\ faults < MaxFaults /\ faults' = faults + 1
        /\ Return(s, "error") /\ UNCHANGED <<skill, backups>>
  /\ UNCHANGED <<root, marker, ships, host, index, crashes, published>>

ReplacePublish(s) ==
  /\ call[s].pc = "publish"
  /\ \/ /\ skill = Absent
        /\ skill' = Package(s) /\ published' = published \cup {call[s].id}
        /\ To(s, "cleanup") /\ UNCHANGED faults
     \/ /\ skill # Absent
        /\ To(s, "rollback") /\ UNCHANGED <<skill, published, faults>>
     \/ /\ faults < MaxFaults /\ faults' = faults + 1
        /\ To(s, "rollback") /\ UNCHANGED <<skill, published>>
  /\ UNCHANGED <<backups, root, marker, ships, host, index, crashes, answer>>

Backup(s) == {b \in backups : b.call = call[s].id}

\* The rollback is a rename too: it fails when another session has created
\* the skill meanwhile, and the backup stays where it is.
Rollback_Bug(s) ==
  /\ call[s].pc = "rollback"
  /\ \/ \E b \in Backup(s) : skill = Absent /\ skill' = b.package /\ UNCHANGED faults
     \/ skill # Absent /\ UNCHANGED <<skill, faults>>
     \/ faults < MaxFaults /\ faults' = faults + 1 /\ UNCHANGED skill
  /\ backups' = backups \ Backup(s)
  /\ Return(s, "error")
  /\ UNCHANGED <<root, marker, ships, host, index, crashes, published>>

Rollback(s) ==
  /\ call[s].pc = "rollback"
  /\ \/ /\ skill = Absent
        /\ \E b \in Backup(s) : skill' = b.package /\ backups' = backups \ {b}
        /\ UNCHANGED faults
     \/ skill # Absent /\ UNCHANGED <<skill, backups, faults>>
     \/ faults < MaxFaults /\ faults' = faults + 1 /\ UNCHANGED <<skill, backups>>
  /\ Return(s, "error")
  /\ UNCHANGED <<root, marker, ships, host, index, crashes, published>>

\* The package is committed: a backup that cannot be removed is no error.
Cleanup_Bug(s) ==
  /\ call[s].pc = "cleanup"
  /\ \/ backups' = backups \ Backup(s) /\ Return(s, "ok") /\ UNCHANGED faults
     \/ faults < MaxFaults /\ faults' = faults + 1 /\ Return(s, "error") /\ UNCHANGED backups
  /\ UNCHANGED <<skill, root, marker, ships, host, index, crashes, published>>

Cleanup(s) ==
  /\ call[s].pc = "cleanup"
  /\ \/ backups' = backups \ Backup(s) /\ UNCHANGED faults
     \/ faults < MaxFaults /\ faults' = faults + 1 /\ UNCHANGED backups
  /\ Return(s, "ok")
  /\ UNCHANGED <<skill, root, marker, ships, host, index, crashes, published>>

---------------------------------------------------------------------------
(* The host opens the workspace and seeds the skills once; it then hands   *)
(* what it has just created to the workload.                               *)

Open ==
  /\ host = "closed"
  /\ LET seeded == ships = "nothing" \/ marker
     IN host' = CASE seeded -> "mkdir"
                  [] ~seeded /\ root = "none" -> "seed"
                  [] OTHER -> "mark"
  /\ UNCHANGED <<fileVars, ships, call, answer, index, faults, crashes, published>>

\* Nothing to seed: os.MkdirAll, and the directory is new or the user's.
MakeRoot ==
  /\ host = "mkdir"
  /\ IF root = "none" THEN root' = "host" /\ host' = "own"
                      ELSE host' = "open" /\ UNCHANGED root
  /\ UNCHANGED <<skill, backups, marker, ships, call, answer, index, faults, crashes, published>>

\* The staged copy of the defaults becomes the skills directory.
SeedPublish ==
  /\ host = "seed"
  /\ root' = "host" /\ host' = "markown"
  /\ IF ships = "this" THEN skill' = Seeded /\ published' = published \cup {0}
                       ELSE UNCHANGED <<skill, published>>
  /\ UNCHANGED <<backups, marker, ships, call, answer, index, faults, crashes>>

WriteMarker ==
  /\ host \in {"mark", "markown"}
  /\ marker' = TRUE
  /\ host' = IF host = "markown" THEN "own" ELSE "open"
  /\ UNCHANGED <<skill, backups, root, ships, call, answer, index, faults, crashes, published>>

Own ==
  /\ host = "own"
  /\ root' = "workload" /\ host' = "open"
  /\ UNCHANGED <<skill, backups, marker, ships, call, answer, index, faults, crashes, published>>

---------------------------------------------------------------------------
(* Listing, and the crashes.                                               *)

\* The texts of the files <name>/SKILL.md that are found.
listRooted == {skill.files[p] : p \in DOMAIN skill.files \cap {"SKILL.md"}}

\* What does not parse is skipped; what is not found is not mentioned.
LoadSkills ==
  /\ host = "open"
  /\ \E text \in listRooted : index' = IF parseSkill(text) THEN "listed" ELSE "skipped"
  /\ UNCHANGED <<fileVars, ships, host, call, answer, faults, crashes, published>>

\* The sandbox dies: its calls never answer, their directories stay.
SandboxCrash ==
  /\ crashes < MaxCrashes /\ crashes' = crashes + 1
  /\ \E s \in Sessions : call[s].pc # "idle"
  /\ call' = [s \in Sessions |-> NoCall]
  /\ UNCHANGED <<fileVars, ships, host, answer, index, faults, published>>

\* The host process restarts; the sandbox runs on, and the next request of
\* the user opens the workspace again.
HostRestart ==
  /\ crashes < MaxCrashes /\ crashes' = crashes + 1
  /\ host # "closed" /\ host' = "closed"
  /\ UNCHANGED <<fileVars, ships, call, answer, index, faults, published>>

Call(s) ==
  \/ \E input \in Inputs : Begin(s, input)
  \/ Refuse(s) \/ Load(s) \/ Prepare(s)
  \/ Lstat(s) \/ CreatePublish(s)
  \/ Check(s) \/ MoveAside(s) \/ ReplacePublish(s) \/ Rollback(s) \/ Cleanup(s)

Next ==
  \/ \E s \in Sessions : Call(s)
  \/ Open \/ MakeRoot \/ SeedPublish \/ WriteMarker \/ Own
  \/ LoadSkills \/ SandboxCrash \/ HostRestart

Spec == Init /\ [][Next]_vars

---------------------------------------------------------------------------
(* Properties.                                                             *)

\* What a set of edits makes of a text: every position is taken on its own,
\* stays, is the start of an edit, or is covered by one.
Covering(edits, i) == {p \in edits : p.offset <= i /\ i < p.end}

Piece(text, edits, i) ==
  IF Covering(edits, i) = {} THEN <<text[i]>>
  ELSE LET p == CHOOSE p \in Covering(edits, i) : TRUE IN IF p.offset = i THEN p.new ELSE <<>>

Substituted(text, edits) == FlattenSeq([i \in 1 .. Len(text) |-> Piece(text, edits, i)])

Requested(base, input) ==
  IF input.op = "create" THEN Created(input)
  ELSE WithFiles([p \in DOMAIN base |->
         LET es == {e \in Range(input.edits) : Key(e.path) = Key(p)}
         IN  IF es = {} THEN base[p]
             ELSE Substituted(base[p], Planned(base[p], (CHOOSE e \in es : TRUE).reps))],
       input.files)

\* Whatever crashes, fails or interleaves, the directory of the skill holds
\* all files of the defaults or of one call, each with exactly the edits that
\* call asked for, and it is a package that no later session skips.
PublishedIsPlanned ==
  /\ skill # Absent =>
       /\ validateSkillPackage(skill.files)
       /\ skill.files = IF skill.id = 0 THEN Default ELSE Requested(skill.base, skill.input)
  /\ index # "skipped"

\* A call that answers that the skill was created or updated has published
\* its package, and a call that answers with an error never has: a failed
\* clean-up is not an error, and a failed publication is not a success.
AnswerIsTrue ==
  \A id \in DOMAIN answer :
    /\ answer[id] = "ok" => id \in published
    /\ answer[id] = "error" => id \notin published

\* Not met by the code, and checked by no run: a replacement is planned on
\* the package that it moves aside.  The revision is compared before the
\* renames, so a replacement by another session in between is overwritten.
ReplacesWhatItRead ==
  \A s \in Sessions : call[s].pc = "cleanup" =>
    \A b \in Backup(s) : b.package.files = call[s].base

\* Not met by the code, and checked by no run: an open workspace's skills
\* belong to the workload.  Interrupted after the seed was published and
\* before it was handed over, the retry takes the directory for the user's.
SeedIsHandedOver == host = "open" => root = "workload"

\* A skill that has existed is never destroyed: it is at its name, or, while
\* a replacement is under way, after a crash in one, or after a rollback that
\* failed too, a whole package lies in a backup directory.
NothingVanishes ==
  published # {} => skill # Absent \/ backups # {}

=============================================================================
