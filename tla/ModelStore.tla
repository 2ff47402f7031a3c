------------------------------ MODULE ModelStore ------------------------------
(***************************************************************************)
(* The directories that training leaves behind: entries of the model       *)
(* registry (ml/registry/store.py, with the bundles of multitask_training, *)
(* foundation_transfer, pretraining and checkpoint) and dataset artifacts  *)
(* (ml/datasets/artifacts.py).  Each is written file by file behind an     *)
(* `.incomplete` marker and never overwritten; a process may stop between  *)
(* any two steps, and a power failure may tear a file that was not synced. *)
(***************************************************************************)
EXTENDS Naturals, Sequences, FiniteSets, SequencesExt

CONSTANTS
  Pins,        \* identities of models and names of artifacts
  Kind,        \* of each: "native", "foundation" or "dataset"
  Writers,     \* processes that write
  MaxEntries,  \* MAX_ENTRIES of the registry
  MaxLosses,   \* bound on power failures
  Idle         \* a process that writes nothing

ASSUME StoreConstants ==
  /\ Kind \in [Pins -> {"native", "foundation", "dataset"}]
  /\ MaxEntries \in Nat /\ MaxLosses \in Nat
  /\ Idle \notin [pin : Pins, step : Nat, open : BOOLEAN]

VARIABLES
  dirs,       \* the directories that exist, <<pin, directory>>
  files,      \* the files in them, <<pin, directory, name>>, torn or whole
  writer,     \* what each process is doing
  reached,    \* how far the writing of a pin ever came
  published,  \* how often a writer answered that a pin is complete
  losses      \* power failures so far

-----------------------------------------------------------------------------
(* The order in which each kind is written.                                 *)

Make(d) == [op |-> "make", dir |-> d, name |-> "none"]
Put(d, n) == [op |-> "put", dir |-> d, name |-> n]
Unmark(d) == [op |-> "unmark", dir |-> d, name |-> ".incomplete"]
Verify == [op |-> "verify", dir |-> "none", name |-> "none"]

Puts(d, names) == [i \in DOMAIN names |-> Put(d, names[i])]
Marked(d, steps) == <<Make(d), Put(d, ".incomplete")>> \o steps \o <<Unmark(d)>>

Encoder == Marked("encoder", Puts("encoder", <<"tokenizer", "report", "weights", "manifest">>))
Heads == Puts("bundle", <<"heads.json", "heads.sha256">>)
Bundle(kind) == Marked("bundle", IF kind = "native" THEN Encoder \o Heads ELSE Heads)

Plan(kind) ==
  IF kind = "dataset"
  THEN Marked("entry", <<Make("records"), Make("audit")>> \o Puts("records", <<"splits">>)
                         \o Puts("audit", <<"audits">>)
                         \o Puts("entry", <<"quality-report", "manifest">>)) \o <<Verify>>
  ELSE Marked("entry", Bundle(kind) \o <<Verify, Put("entry", "entry.json")>>)

-----------------------------------------------------------------------------
(* What a reader accepts.  Every check of a checksum fails on a torn file.  *)

Names(pin, d) == {f[3] : f \in {f \in DOMAIN files : f[1] = pin /\ f[2] = d}}
Expected(kind, d) ==
  {s.name : s \in {s \in ToSet(Plan(kind)) : s.op = "put" /\ s.dir = d}} \ {".incomplete"}

\* Mutant: whatever else is in the directory.
AtLeast(pin, d) ==
  /\ Expected(Kind[pin], d) \subseteq Names(pin, d)
  /\ \A n \in Expected(Kind[pin], d) : files[<<pin, d, n>>] = "whole"

Sound(pin, d) ==
  /\ Names(pin, d) = Expected(Kind[pin], d)
  /\ \A n \in Names(pin, d) : files[<<pin, d, n>>] = "whole"

\* _entries: a registry with too many entries cannot be read at all.
Entries == {pin \in Pins : Kind[pin] # "dataset" /\ <<pin, "entry">> \in dirs}
Readable == Cardinality(Entries) <= MaxEntries

\* load_dataset_artifact, _load_bundle, load_registered_model.
Verifiable(pin) ==
  CASE Kind[pin] = "dataset" -> \A d \in {"entry", "records", "audit"} : Sound(pin, d)
    [] Kind[pin] = "native" -> Sound(pin, "bundle") /\ Sound(pin, "encoder")
    [] Kind[pin] = "foundation" -> Sound(pin, "bundle")

Selectable(pin) ==
  /\ Kind[pin] # "dataset" => Readable /\ Sound(pin, "entry")
  /\ Verifiable(pin)

-----------------------------------------------------------------------------
Writing(pin, step, open) == [pin |-> pin, step |-> step, open |-> open]
Busy == {w \in Writers : writer[w] # Idle}

StoreInit ==
  /\ dirs = {}
  /\ files = <<>>
  /\ writer = [w \in Writers |-> Idle]
  /\ reached = [pin \in Pins |-> 0]
  /\ published = [pin \in Pins |-> 0]
  /\ losses = 0

\* The checks before the first write.  A registry has one writer at a time
\* (docs/transformer-model-registry.md).
Begin(w, pin) ==
  /\ writer[w] = Idle
  /\ <<pin, "entry">> \notin dirs
  /\ Kind[pin] # "dataset" =>
       /\ \A v \in Busy : Kind[writer[v].pin] = "dataset"
       /\ Cardinality(Entries) < MaxEntries
  /\ writer' = [writer EXCEPT ![w] = Writing(pin, 1, FALSE)]
  /\ UNCHANGED <<dirs, files, reached, published, losses>>

Op(w) == Plan(Kind[writer[w].pin])[writer[w].step]
At(w, op) ==
  /\ writer[w] # Idle
  /\ writer[w].step <= Len(Plan(Kind[writer[w].pin]))
  /\ Op(w).op = op

Advance(w) ==
  /\ writer' = [writer EXCEPT ![w] = Writing(@.pin, @.step + 1, FALSE)]
  /\ reached' = [reached EXCEPT ![writer[w].pin] = IF @ < writer[w].step THEN writer[w].step ELSE @]

Leave(w) == writer' = [writer EXCEPT ![w] = Idle]

\* Mutant: an existing directory is taken for one's own (exist_ok).
MakeAnyway(w) ==
  /\ At(w, "make")
  /\ dirs' = dirs \cup {<<writer[w].pin, Op(w).dir>>}
  /\ Advance(w)
  /\ UNCHANGED <<files, published, losses>>

\* mkdir fails when somebody else made the directory after the check.
MakeDir(w) ==
  /\ At(w, "make")
  /\ IF <<writer[w].pin, Op(w).dir>> \in dirs
     THEN Leave(w) /\ UNCHANGED <<dirs, reached>>
     ELSE dirs' = dirs \cup {<<writer[w].pin, Op(w).dir>>} /\ Advance(w)
  /\ UNCHANGED <<files, published, losses>>

Path(w) == <<writer[w].pin, Op(w).dir, Op(w).name>>
With(path, content) ==
  [f \in DOMAIN files \cup {path} |-> IF f = path THEN content ELSE files[f]]

\* open(..., "x"): the file exists, with nothing or a part of its content.
Open(w) ==
  /\ At(w, "put") /\ ~writer[w].open
  /\ IF Path(w) \in DOMAIN files
     THEN Leave(w) /\ UNCHANGED files
     ELSE /\ files' = With(Path(w), "torn")
          /\ writer' = [writer EXCEPT ![w].open = TRUE]
  /\ UNCHANGED <<dirs, reached, published, losses>>

Close(w) ==
  /\ At(w, "put") /\ writer[w].open
  /\ files' = With(Path(w), "whole")
  /\ Advance(w)
  /\ UNCHANGED <<dirs, published, losses>>

RemoveMarker(w) ==
  /\ At(w, "unmark")
  /\ Path(w) \in DOMAIN files
  /\ files' = [f \in DOMAIN files \ {Path(w)} |-> files[f]]
  /\ Advance(w)
  /\ UNCHANGED <<dirs, published, losses>>

Check(w) ==
  /\ At(w, "verify")
  /\ IF Verifiable(writer[w].pin) THEN Advance(w) ELSE Leave(w) /\ UNCHANGED reached
  /\ UNCHANGED <<dirs, files, published, losses>>

Return(w) ==
  /\ writer[w] # Idle
  /\ writer[w].step = Len(Plan(Kind[writer[w].pin])) + 1
  /\ published' = [published EXCEPT ![writer[w].pin] = @ + 1]
  /\ Leave(w)
  /\ UNCHANGED <<dirs, files, reached, losses>>

\* The process is killed, or a write fails: what was written stays.
Stop(w) ==
  /\ writer[w] # Idle
  /\ Leave(w)
  /\ UNCHANGED <<dirs, files, reached, published, losses>>

\* Every writer stops and a file that was never synced is torn: artifacts are synced.
LosePower(f) ==
  /\ losses < MaxLosses
  /\ Kind[f[1]] # "dataset"
  /\ files' = With(f, "torn")
  /\ writer' = [w \in Writers |-> Idle]
  /\ losses' = losses + 1
  /\ UNCHANGED <<dirs, reached, published>>

StoreNext ==
  \/ \E w \in Writers :
       \/ \E pin \in Pins : Begin(w, pin)
       \/ MakeDir(w) \/ Open(w) \/ Close(w) \/ RemoveMarker(w) \/ Check(w) \/ Return(w)
       \/ Stop(w)
  \/ \E f \in DOMAIN files : LosePower(f)

storeVars == <<dirs, files, writer, reached, published, losses>>
StoreSpec == StoreInit /\ [][StoreNext]_storeVars

-----------------------------------------------------------------------------
\* What a writer answered to be complete stays selectable, whatever other writers begin,
\* lose or leave behind (a power failure may tear an entry of the registry, which is not
\* synced, but never an artifact); only what was written to its end is ever selected; and
\* of several writers of one name one succeeds.
LastChange(kind) ==
  CHOOSE i \in DOMAIN Plan(kind) : Plan(kind)[i] = Unmark("entry")

PublishedIsWhole ==
  \A pin \in Pins :
    /\ published[pin] > 0 /\ (losses = 0 \/ Kind[pin] = "dataset") => Selectable(pin)
    /\ Selectable(pin) => reached[pin] >= LastChange(Kind[pin])
    /\ published[pin] <= 1

-----------------------------------------------------------------------------
(* The inductive invariant behind it.                                       *)

StoreTypes ==
  /\ IsFiniteSet(dirs)
  /\ \A f \in DOMAIN files : f[1] \in Pins
  /\ writer \in [Writers -> [pin : Pins, step : Nat, open : BOOLEAN] \cup {Idle}]
  /\ reached \in [Pins -> Nat] /\ published \in [Pins -> Nat] /\ losses \in Nat

\* What was put at step i of its plan, unless it is a marker that was removed.
Placed(pin, i) == LET s == Plan(Kind[pin])[i] IN <<pin, s.dir, s.name>>
Removed(pin, i) ==
  LET plan == Plan(Kind[pin]) IN
  plan[i].name = ".incomplete" /\ \E j \in 1 .. reached[pin] : plan[j] = Unmark(plan[i].dir)
Kept(pin, i) == Plan(Kind[pin])[i].op = "put" /\ ~Removed(pin, i)

\* There is what the plan says up to where its writing came, and perhaps one torn file.
FilesInv(pin) ==
  /\ \A f \in DOMAIN files : f[1] = pin =>
       \E i \in 1 .. Len(Plan(Kind[pin])) :
         i <= reached[pin] + 1 /\ Kept(pin, i) /\ f = Placed(pin, i)
  /\ \A i \in 1 .. reached[pin] : Kept(pin, i) =>
       /\ Placed(pin, i) \in DOMAIN files
       /\ losses = 0 \/ Kind[pin] = "dataset" => files[Placed(pin, i)] = "whole"

PinInv(pin) ==
  /\ reached[pin] <= Len(Plan(Kind[pin]))
  /\ <<pin, "entry">> \in dirs <=> reached[pin] > 0
  /\ published[pin] <= 1
  /\ published[pin] > 0 => reached[pin] = Len(Plan(Kind[pin]))
  /\ FilesInv(pin)

\* Who has made the directory goes on where its writing ended; whoever has not may still
\* find it made by another.
WriterInv(w) ==
  LET a == writer[w] IN
  a # Idle =>
    /\ a.step \in 1 .. Len(Plan(Kind[a.pin])) + 1
    /\ a.open => a.step <= Len(Plan(Kind[a.pin])) /\ Plan(Kind[a.pin])[a.step].op = "put"
    /\ a.step > 1 => reached[a.pin] = a.step - 1 /\ published[a.pin] = 0
    /\ a.step = 1 /\ Kind[a.pin] # "dataset" => Cardinality(Entries) < MaxEntries

OneWriter ==
  \A v, w \in Busy : v # w =>
    /\ writer[v].step > 1 /\ writer[w].step > 1 => writer[v].pin # writer[w].pin
    /\ "dataset" \in {Kind[writer[v].pin], Kind[writer[w].pin]}

StoreInv ==
  /\ StoreTypes
  /\ Readable
  /\ \A pin \in Pins : PinInv(pin)
  /\ \A w \in Writers : WriterInv(w)
  /\ OneWriter
=============================================================================
