----------------------------- MODULE ConfigLoad -----------------------------
(***************************************************************************)
(* LoadSpec (package config) on a single-container devcontainer.json: the  *)
(* workspace id is computed, Substitute expands the ${...} references of   *)
(* workspaceFolder and then of every string field, in passes, and Resolve  *)
(* makes the spec.                                                         *)
(*                                                                         *)
(* A string is a sequence of pieces: a literal, "/", or a reference.  The  *)
(* fields are name, workspaceFolder and other, which stands for all the    *)
(* rest.  An id is modelled without the hash of the local folder, which is *)
(* the same throughout.                                                    *)
(***************************************************************************)
EXTENDS Naturals, Sequences, SequencesExt

CONSTANTS
  Pieces,   \* Pieces[f]: the pieces that field f is made of
  MaxLen,   \* MaxLen[f]: bound, how many of them
  HostEnvs  \* the host environments: whether A and B are set, and to what

Vars == {"${localWorkspaceFolder}", "${localWorkspaceFolderBasename}",
         "${containerWorkspaceFolder}", "${containerWorkspaceFolderBasename}",
         "${devcontainerId}", "${localEnv:A}", "${localEnv:B}",
         "${localEnv:B:default}", "${containerEnv:C}", "${unknown}"}

Literals == {"src", "repo", "default", "devc", "workspaces", ".", "/"}

(* What a slug makes of a reference that was not expanded.                  *)
WordOf == [c \in Vars |-> "word of " \o c]
Words == {WordOf[c] : c \in Vars} \cup {"-"}

Strings == Seq(Literals \cup Vars \cup Words)

LocalFolder == <<"/", "repo">>
Fields == {"name", "workspaceFolder", "other"}

ASSUME ConfigAssumption ==
  /\ Pieces \in [Fields -> SUBSET (Literals \cup Vars)]
  /\ MaxLen \in [Fields -> Nat]
  /\ HostEnvs \subseteq [{"A", "B"} -> [set : BOOLEAN, value : Strings]]

VARIABLES
  env,      \* the host environment
  raw,      \* the config as written
  at,       \* where LoadSpec is: folder, fields, residual, resolve, done, failed
  pass,     \* passes of the current loop so far
  id,       \* the id that ${devcontainerId} stands for
  folder,   \* SubstContext.ContainerWorkspaceFolder
  field,    \* field[f]: the field as substituted so far
  spec      \* the spec's id and its ContainerWorkspaceFolder

vars == <<env, raw, at, pass, id, folder, field, spec>>

TypeOK ==
  /\ env \in HostEnvs
  /\ raw \in [Fields -> Strings] /\ field \in [Fields -> Strings]
  /\ at \in {"folder", "fields", "residual", "resolve", "done", "failed"}
  /\ pass \in 0..3
  /\ id \in Strings /\ folder \in Strings
  /\ spec \in [id : Strings, folder : Strings]

----------------------------------------------------------------------------
(* filepath.Base.                                                           *)
Base(s) ==
  LET parts == SelectSeq(s, LAMBDA c : c # "/")
      ends == {n \in DOMAIN s : s[n] # "/"}
      final == CHOOSE n \in ends : \A m \in ends : m <= n
      starts == {n \in 1..final : n = 1 \/ s[n - 1] = "/"}
      start == CHOOSE n \in starts : \A m \in starts : m <= n
  IN  IF s = <<>> THEN <<".">>
      ELSE IF parts = <<>> THEN <<"/">> ELSE SubSeq(s, start, final)

(* slug: what is not a letter or digit becomes one hyphen, none at the ends. *)
Slugged(c) == CASE c \in Vars -> <<"-", WordOf[c], "-">>
                [] c \in {"/", "."} -> <<"-">>
                [] OTHER -> <<c>>

Slug(s) ==
  LET all == FlattenSeq([n \in DOMAIN s |-> Slugged(s[n])])
      word(n) == all[n] # "-"
      keep == {n \in DOMAIN all : word(n) \/ (n > 1 /\ word(n - 1)
                                     /\ \E m \in n + 1..Len(all) : word(m))}
  IN  IF keep = {} THEN <<"devc">>
      ELSE FlattenSeq([n \in DOMAIN all |-> IF n \in keep THEN <<all[n]>> ELSE <<>>])

NameOr(s) == IF s = <<>> THEN Base(LocalFolder) ELSE s

WorkspaceID(name) == Slug(NameOr(name))

(* resolveVar.                                                              *)
LookupEnv(name, default) == IF env[name].set THEN env[name].value ELSE default

ResolveVar(c) ==
  CASE c = "${localWorkspaceFolder}" -> LocalFolder
    [] c = "${localWorkspaceFolderBasename}" -> Base(LocalFolder)
    [] c = "${containerWorkspaceFolder}" -> folder
    [] c = "${containerWorkspaceFolderBasename}" -> Base(folder)
    [] c = "${devcontainerId}" -> id
    [] c = "${localEnv:A}" -> LookupEnv("A", <<>>)
    [] c = "${localEnv:B}" -> LookupEnv("B", <<>>)
    [] c = "${localEnv:B:default}" -> LookupEnv("B", <<"default">>)
    [] OTHER -> <<c>>

(* expand, one pass; the text that replaces a reference is not read again.  *)
Expand(s) == FlattenSeq([n \in DOMAIN s |-> ResolveVar(s[n])])

Unknown(s) == Contains(s, "${unknown}")

Residual(s) == \E n \in DOMAIN s : s[n] \in Vars \ {"${containerEnv:C}"}

(* Bound: a folder that names itself twice squares with every pass.         *)
NamesItselfOnce(s) ==
  \A m, n \in DOMAIN s :
    {s[m], s[n]} \subseteq {"${containerWorkspaceFolder}",
                           "${containerWorkspaceFolderBasename}"} => m = n

----------------------------------------------------------------------------
Written(f) == UNION {[1..n -> Pieces[f]] : n \in 0..MaxLen[f]}

Init ==
  /\ env \in HostEnvs
  /\ \E n \in Written("name"), w \in Written("workspaceFolder"), o \in Written("other") :
       raw = [name |-> n, workspaceFolder |-> w, other |-> o]
  /\ NamesItselfOnce(raw["workspaceFolder"])
  /\ at = "folder" /\ pass = 0
  /\ id = WorkspaceID(raw["name"])
  /\ folder = raw["workspaceFolder"]
  /\ field = raw
  /\ spec = [id |-> <<>>, folder |-> <<>>]

Goto(step) == at' = step /\ pass' = 0
Fail == Goto("failed") /\ UNCHANGED <<env, raw, id, folder, field, spec>>

(* Mutant: the folder is taken as written.                                  *)
MutantExpandFolder ==
  /\ at = "folder"
  /\ Goto("fields")
  /\ UNCHANGED <<env, raw, id, folder, field, spec>>

(* Substitute expands workspaceFolder first, for it feeds the others.       *)
ExpandFolder ==
  /\ at = "folder"
  /\ IF Unknown(folder) THEN Fail
     ELSE /\ folder' = Expand(folder)
          /\ IF folder' = folder \/ pass = 2
             THEN Goto("fields") /\ field' = [field EXCEPT !["workspaceFolder"] = folder']
             ELSE at' = at /\ pass' = pass + 1 /\ UNCHANGED field
          /\ UNCHANGED <<env, raw, id, spec>>

(* Mutant: a pass too few.                                                  *)
MutantTwoPasses ==
  /\ at = "fields"
  /\ IF \E f \in Fields : Unknown(field[f]) THEN Fail
     ELSE /\ field' = [f \in Fields |-> Expand(field[f])]
          /\ IF field' = field \/ pass = 1
             THEN Goto("residual")
             ELSE at' = at /\ pass' = pass + 1
          /\ UNCHANGED <<env, raw, id, folder, spec>>

(* substituteValue over every field.                                        *)
ExpandFields ==
  /\ at = "fields"
  /\ IF \E f \in Fields : Unknown(field[f]) THEN Fail
     ELSE /\ field' = [f \in Fields |-> Expand(field[f])]
          /\ IF field' = field \/ pass = 2
             THEN Goto("residual")
             ELSE at' = at /\ pass' = pass + 1
          /\ UNCHANGED <<env, raw, id, folder, spec>>

(* Mutant: what is left unresolved is let through.                          *)
MutantCheckResidual ==
  /\ at = "residual"
  /\ Goto("resolve")
  /\ UNCHANGED <<env, raw, id, folder, field, spec>>

CheckResidual ==
  /\ at = "residual"
  /\ Goto(IF \E f \in Fields : Residual(field[f]) THEN "failed" ELSE "resolve")
  /\ UNCHANGED <<env, raw, id, folder, field, spec>>

(* Resolve: the id again, and the folder's default.                         *)
Resolve ==
  /\ at = "resolve"
  /\ Goto("done")
  /\ spec' = [id |-> WorkspaceID(field["name"]),
              folder |-> IF field["workspaceFolder"] = <<>>
                         THEN <<"/", "workspaces", "/">> \o Slug(Base(LocalFolder))
                         ELSE field["workspaceFolder"]]
  /\ UNCHANGED <<env, raw, id, folder, field>>

Next == ExpandFolder \/ ExpandFields \/ CheckResidual \/ Resolve

Spec == Init /\ [][Next]_vars

----------------------------------------------------------------------------
(* Properties.                                                              *)

Done == at = "done"
Refers(f, c) == raw[f] = <<c>>

(* A field that refers to the container's workspace folder gets the folder  *)
(* that the workspace is mounted at, and its last element, however many     *)
(* references the folder was written with, unless that is the default.      *)
FolderReferencesAgree ==
  Done /\ field["workspaceFolder"] # <<>> =>
    /\ Refers("other", "${containerWorkspaceFolder}") => field["other"] = spec.folder
    /\ Refers("other", "${containerWorkspaceFolderBasename}")
         => field["other"] = Base(spec.folder)

(* No reference is left in a spec but those of the container's environment, *)
(* and nothing is rejected that one more pass would resolve, as long as the *)
(* environment's values lead to one another no more than three deep.        *)
RejectedOnlyUnresolvable ==
  /\ Done => \A f \in Fields : ~Residual(field[f])
  /\ at = "failed" => \E f \in Fields : Unknown(field[f]) \/ Unknown(folder)
                                        \/ (Residual(field[f]) /\ Residual(Expand(field[f])))

(* "compute it from the same inputs Resolve will use so the two agree".     *)
IdsAgree == Done => spec.id = id

(* Substitution covers ${containerWorkspaceFolder}, also where the folder   *)
(* is the default.                                                          *)
DefaultFolderReferenced ==
  Done /\ Refers("other", "${containerWorkspaceFolder}") => field["other"] = spec.folder
=============================================================================
