---------------------------- MODULE CheckpointPrep ----------------------------
(***************************************************************************)
(* How a checkpoint is made ready to serve: prepare.sh and the tools it    *)
(* runs one after another on a checkpoint directory (download, int8 head,  *)
(* fp8 side layers, n-gram index, config, clean-up) and, last, on a        *)
(* variant directory made of hard links to it (int4 draft experts).        *)
(*                                                                         *)
(* A run may be interrupted at any moment; the operator then starts the    *)
(* script again.  A file is the set of directory entries that lead to its  *)
(* inode, so that hard links, renames and writes through a link are what   *)
(* they are; while it is being written its contents are Partial.  The      *)
(* contents of a file are the upstream release they come from and the      *)
(* conversions they have been through.                                     *)
(***************************************************************************)
EXTENDS Integers, Sequences, FiniteSets, SequencesExt

CONSTANTS
  Shards,       \* shard files of the checkpoint
  HeadShard,    \* the one that holds lm_head.weight
  SideShards,   \* those with side layers to convert, in the order of their names
  HardLinks,    \* whether the file system has hard links: the cases to consider
  Releases,     \* releases upstream publishes
  MaxCrashes,   \* bound on interruptions
  ByHand        \* tools the operator may run by hand, one of them once

ASSUME ShardsAssumption ==
  /\ HeadShard \in Shards /\ SideShards \in Seq(Shards)
  /\ IsFiniteSet(Shards) /\ {"extra", "index", "config"} \cap Shards = {}
ASSUME HardLinksAssumption == HardLinks \subseteq BOOLEAN
ASSUME ByHandAssumption == ByHand \subseteq {"head", "fp8", "strip"}
ASSUME BoundsAssumption == Releases \in Nat \ {0} /\ MaxCrashes \in Nat

VARIABLES
  files,     \* the files of the two directories
  links,     \* whether hard links can be made
  release,   \* the latest release upstream
  tool,      \* the step of the script that is running, or was last
  step,      \* where it is
  open,      \* a file is open for writing
  fetched,   \* the release this run downloads
  idx,       \* the index json a tool has read
  mem,       \* the tensors or the json a tool is about to save
  todo,      \* what a tool's loop has still to do
  crashes,   \* interruptions so far
  alone,     \* the tool runs by hand, not under the script
  byHand     \* the tools that were run by hand so far

memory == <<idx, mem, todo>>
hand == <<alone, byHand>>
vars == <<files, links, release, tool, step, open, fetched, memory, crashes, hand>>

Ckpt == "checkpoint"
Variant == "variant"

Extra == <<"extra", "">>
Index == <<"index", "">>
Config == <<"config", "">>
Shard(s) == <<s, "">>
HeadBak == <<HeadShard, ".bf16head.bak">>
SideBak(s) == <<s, ".bf16.bak">>
IndexBak == <<"index", ".with-ngram.bak">>
ConfigBak == <<"config", ".autoround">>

ShardFiles == {Shard(s) : s \in Shards}
Repo == ShardFiles \cup {Extra, Index, Config}
SideBaks == {SideBak(s) : s \in ToSet(SideShards)}
Names == Repo \cup SideBaks \cup {HeadBak, IndexBak, ConfigBak}

\* A file's contents: the release it is from and, as marks, what it has been
\* through: "head" made int8, side layers "fp8", again "fp8again", "ngram" entries
\* dropped, config rewritten "gptq", experts int4 "mtp".
Partial == [release |-> 0, marks |-> {}]

Original(r) == [release |-> r, marks |-> {}]
With(c, m) == [c EXCEPT !.marks = @ \cup {m}]

Exists(d, n) == \E f \in files : <<d, n>> \in f.entries

\* A file's contents; one that does not exist reads like one cut short.
File(d, n) ==
  IF Exists(d, n) THEN (CHOOSE f \in files : <<d, n>> \in f.entries).content ELSE Partial
Readable(d, n) == File(d, n) # Partial

Init ==
  /\ files = {}
  /\ links \in HardLinks
  /\ release = 1
  /\ tool = "download" /\ step = "stopped"
  /\ open = FALSE
  /\ fetched = 1
  /\ idx = Partial /\ mem = Partial /\ todo = {}
  /\ crashes = 0
  /\ alone = FALSE /\ byHand = {}

-------------------------------------------------------------------------------
(* The file system. *)

\* The files fs without the entries es.
Without(fs, es) ==
  {f \in {[g EXCEPT !.entries = @ \ es] : g \in fs} : f.entries # {}}

\* Entry e becomes a new file with contents c, in one step.
Replaced(fs, e, c) == Without(fs, {e}) \cup {[entries |-> {e}, content |-> c]}

\* The contents of the file at e become c, whoever else links to it.
Overwritten(fs, e, c) == {IF e \in f.entries THEN [f EXCEPT !.content = c] ELSE f : f \in fs}

Linked(fs, e, new) ==
  {IF e \in f.entries THEN [f EXCEPT !.entries = @ \cup {new}] ELSE f : f \in fs}

Renamed(fs, e, new) == Without(Linked(Without(fs, {new}), e, new), {e})

\* open(..., "w"), write, close: an existing file is truncated and written in
\* place.
Write(d, n, c, then) ==
  /\ IF ~open
     THEN /\ open' = TRUE
          /\ files' = IF Exists(d, n) THEN Overwritten(files, <<d, n>>, Partial)
                      ELSE Replaced(files, <<d, n>>, Partial)
          /\ UNCHANGED step
     ELSE /\ open' = FALSE
          /\ files' = Overwritten(files, <<d, n>>, c)
          /\ step' = then
  /\ UNCHANGED <<links, release, tool, fetched, memory, crashes, hand>>

\* An uncaught exception or sys.exit: set -e ends the script.
Stop ==
  /\ step' = "stopped"
  /\ UNCHANGED <<links, files, release, tool, open, fetched, memory, crashes, hand>>

\* The tool is over and the next one starts.
Over(t, next) ==
  /\ tool = t /\ step = "over" /\ ~alone
  /\ tool' = next /\ step' = "start"
  /\ idx' = Partial /\ mem' = Partial /\ todo' = {}
  /\ UNCHANGED <<links, files, release, open, fetched, crashes, hand>>

-------------------------------------------------------------------------------
(* hf download: restores every file of the release that is missing or differs, *)
(* each in one step.                                                           *)

Stale == {n \in Repo : File(Ckpt, n) # Original(fetched)}

Download ==
  /\ tool = "download" /\ step = "start"
  /\ IF Stale = {}
     THEN step' = "over" /\ UNCHANGED files
     ELSE /\ \E n \in Stale : files' = Replaced(files, <<Ckpt, n>>, Original(fetched))
          /\ UNCHANGED step
  /\ UNCHANGED <<links, release, tool, open, fetched, memory, crashes, hand>>

-------------------------------------------------------------------------------
(* quantize_lm_head_int8.py *)

\* The index lists lm_head.weight, and its shard has it.
HeadPresent_NoBackup ==
  ~Exists(Ckpt, HeadBak) /\ Readable(Ckpt, Index) /\ Readable(Ckpt, Shard(HeadShard))
HeadPresent ==
  /\ Readable(Ckpt, Index) /\ "head" \notin File(Ckpt, Index).marks
  /\ Readable(Ckpt, Shard(HeadShard)) /\ "head" \notin File(Ckpt, Shard(HeadShard)).marks

HeadLoad ==
  /\ tool = "head" /\ step = "start"
  /\ IF HeadPresent
     THEN /\ idx' = File(Ckpt, Index)
          /\ mem' = With(File(Ckpt, Shard(HeadShard)), "head")
          /\ step' = "move"
          /\ UNCHANGED <<links, files, release, tool, open, fetched, todo, crashes, hand>>
     ELSE Stop

HeadMove ==
  /\ tool = "head" /\ step = "move"
  /\ files' = Renamed(files, <<Ckpt, Shard(HeadShard)>>, <<Ckpt, HeadBak>>)
  /\ step' = "save"
  /\ UNCHANGED <<links, release, tool, open, fetched, memory, crashes, hand>>

HeadSave ==
  tool = "head" /\ step = "save" /\ Write(Ckpt, Shard(HeadShard), mem, "index")

HeadIndex ==
  tool = "head" /\ step = "index" /\ Write(Ckpt, Index, With(idx, "head"), "over")

-------------------------------------------------------------------------------
(* fp8_convert.py *)

SideStart ==
  /\ tool = "fp8" /\ step = "start"
  /\ IF Readable(Ckpt, Index)
     THEN /\ idx' = File(Ckpt, Index)
          /\ todo' = ToSet(SideShards)
          /\ step' = "shard"
          /\ UNCHANGED <<links, files, release, tool, open, fetched, mem, crashes, hand>>
     ELSE Stop

\* The shard of this iteration.
Current == SideShards[Min({i \in DOMAIN SideShards : SideShards[i] \in todo})]

\* Quantizes whatever the targets hold; fp8 values would lose their scale.
Quantized(c) == With(c, IF "fp8" \in c.marks THEN "fp8again" ELSE "fp8")

SideLoad ==
  /\ tool = "fp8" /\ step = "shard" /\ todo # {}
  /\ IF Readable(Ckpt, Shard(Current))
     THEN /\ mem' = Quantized(File(Ckpt, Shard(Current)))
          /\ step' = "move"
          /\ UNCHANGED <<links, files, release, tool, open, fetched, idx, todo, crashes, hand>>
     ELSE Stop

SideMove ==
  /\ tool = "fp8" /\ step = "move"
  /\ files' = Renamed(files, <<Ckpt, Shard(Current)>>, <<Ckpt, SideBak(Current)>>)
  /\ step' = "save"
  /\ UNCHANGED <<links, release, tool, open, fetched, memory, crashes, hand>>

SideSave ==
  tool = "fp8" /\ step = "save" /\ Write(Ckpt, Shard(Current), mem, "saved")

SideNext ==
  /\ tool = "fp8" /\ step = "saved"
  /\ todo' = todo \ {Current}
  /\ step' = "shard"
  /\ UNCHANGED <<links, files, release, tool, open, fetched, idx, mem, crashes, hand>>

SideIndex ==
  tool = "fp8" /\ step = "shard" /\ todo = {} /\ Write(Ckpt, Index, With(idx, "fp8"), "over")

-------------------------------------------------------------------------------
(* strip_ngram_index.py *)

StripLoad ==
  /\ tool = "strip" /\ step = "start"
  /\ IF Readable(Ckpt, Index) /\ "ngram" \notin File(Ckpt, Index).marks
     THEN /\ idx' = File(Ckpt, Index)
          /\ step' = "backup"
          /\ UNCHANGED <<links, files, release, tool, open, fetched, mem, todo, crashes, hand>>
     ELSE Stop

\* The backup is a copy of the file, whose entries are already gone from idx.
BackedUp_FromMemory == With(idx, "ngram")
BackedUp == File(Ckpt, Index)

StripBackup == tool = "strip" /\ step = "backup" /\ Write(Ckpt, IndexBak, BackedUp, "index")

StripIndex == tool = "strip" /\ step = "index" /\ Write(Ckpt, Index, With(idx, "ngram"), "over")

-------------------------------------------------------------------------------
(* prepare.sh itself: the config is rewritten, the backups of fp8_convert go. *)

ConfigBackup ==
  tool = "config" /\ step = "start" /\ Write(Ckpt, ConfigBak, File(Ckpt, Config), "load")

ConfigLoad ==
  /\ tool = "config" /\ step = "load"
  /\ IF Readable(Ckpt, Config)
     THEN /\ mem' = With(File(Ckpt, Config), "gptq")
          /\ step' = "write"
          /\ UNCHANGED <<links, files, release, tool, open, fetched, idx, todo, crashes, hand>>
     ELSE Stop

ConfigWrite == tool = "config" /\ step = "write" /\ Write(Ckpt, Config, mem, "over")

\* rm -f *.bf16.bak
CleanUp ==
  /\ tool = "clean" /\ step = "start"
  /\ LET left == {n \in SideBaks : Exists(Ckpt, n)}
     IN IF left = {} THEN step' = "over" /\ UNCHANGED files
        ELSE (\E n \in left : files' = Without(files, {<<Ckpt, n>>})) /\ UNCHANGED step
  /\ UNCHANGED <<links, release, tool, open, fetched, memory, crashes, hand>>

-------------------------------------------------------------------------------
(* quantize_mtp_experts_int4.py: link_tree, then what is written afresh. *)

\* REGEN
Regen_NoIndex == {Extra, Config}
Regen == {Extra, Index, Config}

LinkStart ==
  /\ tool = "mtp" /\ step = "start"
  /\ todo' = {n \in Names : Exists(Ckpt, n)} \ Regen
  /\ step' = "link"
  /\ UNCHANGED <<links, files, release, tool, open, fetched, idx, mem, crashes, hand>>

\* One name after another; names that exist are left alone.
LinkNext ==
  /\ tool = "mtp" /\ step = "link" /\ todo # {}
  /\ LET n == CHOOSE n \in todo : TRUE
     IN IF Exists(Variant, n)
        THEN todo' = todo \ {n} /\ UNCHANGED <<files, step>>
        ELSE IF links
        THEN files' = Linked(files, <<Ckpt, n>>, <<Variant, n>>) /\ todo' = todo \ {n} /\ UNCHANGED step
        ELSE step' = "copy" /\ UNCHANGED <<files, todo>>
  /\ UNCHANGED <<links, release, tool, open, fetched, idx, mem, crashes, hand>>

\* The fallback, shutil.copy2, writes under the final name.
LinkCopy ==
  /\ tool = "mtp" /\ step = "copy"
  /\ LET n == CHOOSE n \in todo : TRUE IN Write(Variant, n, File(Ckpt, n), "link")

\* Files to be written afresh that share an inode with another are unlinked.
Shared_Kept == {}
Shared ==
  {n \in Regen : \E f \in files : <<Variant, n>> \in f.entries /\ Cardinality(f.entries) > 1}

Unshare ==
  /\ tool = "mtp" /\ step = "link" /\ todo = {}
  /\ files' = Without(files, {Variant} \X Shared)
  /\ step' = "extra"
  /\ UNCHANGED <<links, release, tool, open, fetched, memory, crashes, hand>>

ExpertsLoad ==
  /\ tool = "mtp" /\ step = "extra"
  /\ IF Readable(Ckpt, Extra)
     THEN /\ mem' = With(File(Ckpt, Extra), "mtp")
          /\ files' = Without(files, {<<Variant, Extra>>})
          /\ step' = "save"
          /\ UNCHANGED <<links, release, tool, open, fetched, idx, todo, crashes, hand>>
     ELSE Stop

ExpertsSave == tool = "mtp" /\ step = "save" /\ Write(Variant, Extra, mem, "read index")

\* json.load of the source's file, changed, before the variant's is opened; the
\* config must have the exclusion rule to drop.
JsonLoad(n, from, to) ==
  /\ tool = "mtp" /\ step = from
  /\ IF Readable(Ckpt, n) /\ (n = Config => "gptq" \in File(Ckpt, n).marks)
     THEN /\ mem' = With(File(Ckpt, n), "mtp")
          /\ step' = to
          /\ UNCHANGED <<links, files, release, tool, open, fetched, idx, todo, crashes, hand>>
     ELSE Stop

MtpIndexLoad == JsonLoad(Index, "read index", "index")
MtpIndex == tool = "mtp" /\ step = "index" /\ Write(Variant, Index, mem, "read config")
MtpConfigLoad == JsonLoad(Config, "read config", "config")
MtpConfig == tool = "mtp" /\ step = "config" /\ Write(Variant, Config, mem, "over")

-------------------------------------------------------------------------------
(* The operator and the world. *)

\* The script is started: again from the download after an interruption, and
\* perhaps once more after it had finished.
Start ==
  /\ step = "stopped" \/ (tool = "mtp" /\ step = "over")
  /\ tool' = "download" /\ step' = "start"
  /\ fetched' = release
  /\ idx' = Partial /\ mem' = Partial /\ todo' = {}
  /\ alone' = FALSE
  /\ UNCHANGED <<links, files, release, open, crashes, byHand>>

\* After an interruption the operator first runs by hand the tool that was
\* interrupted.
RunByHand ==
  /\ step = "stopped" /\ byHand = {}
  /\ tool \in ByHand
  /\ byHand' = {tool} /\ alone' = TRUE
  /\ step' = "start"
  /\ idx' = Partial /\ mem' = Partial /\ todo' = {}
  /\ UNCHANGED <<links, files, release, tool, open, fetched, crashes>>

\* The variant is replaced by a hard-linked copy of the finished checkpoint,
\* made by hand, and the last tool is run on it by itself.
HandCopy ==
  /\ links
  /\ tool = "mtp" /\ step = "over"
  /\ files' = {[f EXCEPT !.entries = @ \cup {<<Variant, e[2]>> : e \in @}] :
                 f \in Without(files, {Variant} \X Names)}
  /\ step' = "start"
  /\ UNCHANGED <<links, release, tool, open, fetched, memory, crashes, hand>>

\* Power loss, full disk, Ctrl-C.
Crash ==
  /\ crashes < MaxCrashes
  /\ step # "stopped" /\ ~(tool = "mtp" /\ step = "over")
  /\ crashes' = crashes + 1
  /\ step' = "stopped" /\ open' = FALSE
  /\ UNCHANGED <<links, files, release, tool, fetched, memory, hand>>

Publish ==
  /\ release < Releases
  /\ release' = release + 1
  /\ UNCHANGED <<links, files, tool, step, open, fetched, memory, crashes, hand>>

QuantizeHead == HeadLoad \/ HeadMove \/ HeadSave \/ HeadIndex
Fp8 == SideStart \/ SideLoad \/ SideMove \/ SideSave \/ SideNext \/ SideIndex
Strip == StripLoad \/ StripBackup \/ StripIndex
Conf == ConfigBackup \/ ConfigLoad \/ ConfigWrite
Mtp == \/ LinkStart \/ LinkNext \/ LinkCopy \/ Unshare \/ ExpertsLoad \/ ExpertsSave
       \/ MtpIndexLoad \/ MtpIndex \/ MtpConfigLoad \/ MtpConfig

\* A tool run by hand is done, and nothing follows.
HandOver == alone /\ step = "over" /\ Stop

Advance == \/ Over("download", "head") \/ Over("head", "fp8") \/ Over("fp8", "strip")
           \/ Over("strip", "config") \/ Over("config", "clean") \/ Over("clean", "mtp")

Run == Download \/ QuantizeHead \/ Fp8 \/ Strip \/ Conf \/ CleanUp \/ Mtp \/ Advance \/ HandOver
Again == step = "stopped" /\ Start

Next == Run \/ Start \/ RunByHand \/ HandCopy \/ Crash \/ Publish

\* A running tool runs on, and an operator whose script stopped starts it again.
Spec == Init /\ [][Next]_vars /\ WF_vars(Run) /\ WF_vars(Again)

-------------------------------------------------------------------------------
(* Properties. *)

Finished == tool = "mtp" /\ step = "over"

\* What a file of a directory must have been through to be served.
Expected(d, n) ==
  CASE n \in ShardFiles -> {m \in {"head", "fp8"} : \/ m = "head" /\ n = Shard(HeadShard)
                                                    \/ m = "fp8" /\ n[1] \in ToSet(SideShards)}
    [] n = Index -> {"head", "fp8", "ngram"} \cup IF d = Variant THEN {"mtp"} ELSE {}
    [] n = Config -> {"gptq"} \cup IF d = Variant THEN {"mtp"} ELSE {}
    [] n = Extra -> IF d = Variant THEN {"mtp"} ELSE {}

Servable(d) ==
  \A n \in Repo : File(d, n) = [release |-> fetched, marks |-> Expected(d, n)]

\* When the script says it is done, the directories can be served: every file
\* whole, converted exactly once and of one release, whatever interrupted earlier
\* runs and wherever, and whatever tool was run by hand in between.
\* The variant only where hard links work and upstream has not published again
\* since.
FinishedMeansServable ==
  Finished => Servable(Ckpt) /\ (links /\ release = 1 => Servable(Variant))

\* When the script says it is done, so is the variant: "every untouched file is
\* hardlinked from src (copied if that fails)".
VariantServable == Finished => Servable(Variant)

\* The backups are what the tools say they are: the head's shard as released, the
\* side layers' not yet fp8, the index with its n-gram entries, the config as
\* released.  Of the side layers' only while fp8_convert has not been run by hand:
\* it quantizes what an interrupted run had done already and moves that over the
\* backups.
BackupsAreOriginals ==
  \A d \in {Ckpt, Variant} :
    /\ File(d, HeadBak).marks = {}
    /\ "fp8" \in byHand \/ \A n \in SideBaks : "fp8" \notin File(d, n).marks
    /\ "ngram" \notin File(d, IndexBak).marks
    /\ "gptq" \notin File(d, ConfigBak).marks

\* Making the variant never edits the checkpoint it is made from, not through a
\* hard link either.
SourceUntouchedByVariant ==
  [][tool = "mtp" => \A n \in Names : (File(Ckpt, n))' = File(Ckpt, n)]_vars

\* A preparation that was interrupted, anywhere and more than once, is finished
\* by running the script again.
InterruptedRunIsFinished == (crashes > 0) ~> Finished
===============================================================================
