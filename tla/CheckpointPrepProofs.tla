------------------------- MODULE CheckpointPrepProofs -------------------------
(***************************************************************************)
(* Proofs about CheckpointPrep for any set of shards, any order of the     *)
(* side shards, any number of releases and interruptions.                  *)
(*                                                                         *)
(* The inductive invariant IInv says what each file is at each step of     *)
(* each tool; every action keeps it by a lemma that first says, from the   *)
(* frame lemmas on file systems, what the action does to which entry.      *)
(***************************************************************************)
EXTENDS CheckpointPrep, SequenceTheorems, FiniteSetTheorems, TLAPS

----------------------------------------------------------------------------
(* A file system, whatever it holds.                                       *)

Marks == {"head", "fp8", "fp8again", "ngram", "gptq", "mtp"}
Contents == [release : Nat, marks : SUBSET Marks]
Dirs == {Ckpt, Variant}
Entries == Dirs \X Names

\* An entry leads to one file.
FileSystem(fs) ==
  /\ \A f \in fs : f \in [entries : SUBSET Entries, content : Contents]
  /\ \A f, g \in fs, e \in Entries : e \in f.entries /\ e \in g.entries => f = g

Has(fs, e) == \E f \in fs : e \in f.entries
Val(fs, e) == IF Has(fs, e) THEN (CHOOSE f \in fs : e \in f.entries).content ELSE Partial

\* Two entries lead to the same file.
Tied(fs, e, g) == \E f \in fs : e \in f.entries /\ g \in f.entries

Single(fs, e) == \A g \in Entries : Tied(fs, e, g) => g = e

----------------------------------------------------------------------------
(* The inductive invariant.                                                *)

Tools == {"download", "head", "fp8", "strip", "config", "clean", "mtp"}

Released(ms) == [release |-> fetched, marks |-> ms]

\* Shards and their backups are only ever made, moved, linked and removed; any other
\* file that is linked under two names has the same name in both directories.
ShardKind == ShardFiles \cup SideBaks \cup {HeadBak}
OneKind ==
  \A d, c \in Dirs, m, n \in Names :
    Tied(files, <<d, m>>, <<c, n>>) => m = n \/ (m \in ShardKind /\ n \in ShardKind)

TypeInv ==
  /\ FileSystem(files)
  /\ links \in BOOLEAN /\ open \in BOOLEAN /\ alone \in BOOLEAN
  /\ release \in Nat /\ fetched \in Nat /\ 1 <= fetched /\ fetched <= release
  /\ tool \in Tools
  /\ idx \in Contents /\ mem \in Contents
  /\ byHand \in SUBSET {"head", "fp8", "strip"}
  /\ alone => tool \in byHand
  /\ step = "stopped" => ~open

\* The script, not a tool run by hand, is at work.
Scripted(t) == tool = t /\ step # "stopped" /\ ~alone

HeadMark(s) == IF s = HeadShard THEN {"head"} ELSE {}
SideMark(s) == IF s \in ToSet(SideShards) THEN {"fp8"} ELSE {}

\* A file about to be written is not there, or is one nobody else links to.
Fresh(e) == IF open THEN Has(files, e) /\ Single(files, e) ELSE ~Has(files, e)
InPlace(d, n, c) == IF open THEN Has(files, <<d, n>>) ELSE File(d, n) = c

DownloadInv ==
  tool = "download" =>
    /\ step \in {"start", "over", "stopped"} /\ ~open
    /\ step = "over" => \A n \in Repo : File(Ckpt, n) = Released({})

HeadInv ==
  tool = "head" =>
    /\ step \in {"start", "move", "save", "index", "over", "stopped"}
    /\ open => step \in {"save", "index"}
    /\ \A n \in Repo \ {Shard(HeadShard), Index} : File(Ckpt, n) = Released({})
    /\ \A n \in {Shard(HeadShard), Index} : File(Ckpt, n) \in {Released({}), Partial, Released({"head"})}
    /\ step \in {"move", "save"} =>
         File(Ckpt, Index) = Released({}) /\ idx = Released({}) /\ mem = Released({"head"})
    /\ step = "move" => File(Ckpt, Shard(HeadShard)) = Released({})
    /\ step = "save" => Fresh(<<Ckpt, Shard(HeadShard)>>)
    /\ step = "index" =>
         /\ File(Ckpt, Shard(HeadShard)) = Released({"head"}) /\ idx = Released({})
         /\ InPlace(Ckpt, Index, Released({}))
    /\ step = "over" => \A n \in {Shard(HeadShard), Index} : File(Ckpt, n) = Released({"head"})

\* The shards fp8_convert is through with.
Through(s) == s \in ToSet(SideShards) /\ (s \notin todo \/ (step = "saved" /\ s = Current))

Fp8Inv ==
  /\ tool = "fp8" =>
       /\ step \in {"start", "shard", "move", "save", "saved", "over", "stopped"}
       /\ open => step = "save" \/ (step = "shard" /\ todo = {} /\ Has(files, <<Ckpt, Index>>))
       /\ step \in {"shard", "move", "save", "saved", "over"} => todo \in SUBSET ToSet(SideShards)
       /\ step \in {"move", "save", "saved"} => todo # {}
       /\ step = "move" => Has(files, <<Ckpt, Shard(Current)>>)
       /\ step = "save" => Fresh(<<Ckpt, Shard(Current)>>)
  /\ Scripted("fp8") =>
       /\ \A n \in {Extra, Config} : File(Ckpt, n) = Released({})
       /\ step = "start" =>
            /\ \A s \in Shards : File(Ckpt, Shard(s)) = Released(HeadMark(s))
            /\ File(Ckpt, Index) = Released({"head"})
       /\ step # "start" =>
            /\ idx = Released({"head"})
            /\ step # "over" /\ ~(step = "shard" /\ open) => File(Ckpt, Index) = Released({"head"})
            /\ \A s \in Shards :
                 IF Through(s) THEN File(Ckpt, Shard(s)) = Released(HeadMark(s) \cup {"fp8"})
                 ELSE ~(step = "save" /\ s = Current) => File(Ckpt, Shard(s)) = Released(HeadMark(s))
       /\ step \in {"move", "save"} => mem = Released(HeadMark(Current) \cup {"fp8"})
       /\ step = "over" => todo = {} /\ File(Ckpt, Index) = Released({"head", "fp8"})

ShardsDone == \A s \in Shards : File(Ckpt, Shard(s)) = Released(HeadMark(s) \cup SideMark(s))

StripInv ==
  /\ tool = "strip" =>
       /\ step \in {"start", "backup", "index", "over", "stopped"}
       /\ open => step \in {"backup", "index"}
       /\ open => Has(files, IF step = "backup" THEN <<Ckpt, IndexBak>> ELSE <<Ckpt, Index>>)
       /\ step = "backup" => "ngram" \notin File(Ckpt, Index).marks
  /\ Scripted("strip") =>
       /\ ShardsDone /\ \A n \in {Extra, Config} : File(Ckpt, n) = Released({})
       /\ step \in {"backup", "index"} => idx = Released({"head", "fp8"})
       /\ step \in {"start", "backup"} => File(Ckpt, Index) = Released({"head", "fp8"})
       /\ step = "over" => File(Ckpt, Index) = Released({"head", "fp8", "ngram"})

ConfigInv ==
  Scripted("config") =>
    /\ step \in {"start", "load", "write", "over"}
    /\ open => step \in {"start", "write"} /\ Has(files, IF step = "start" THEN <<Ckpt, ConfigBak>> ELSE <<Ckpt, Config>>)
    /\ ShardsDone /\ File(Ckpt, Extra) = Released({})
    /\ File(Ckpt, Index) = Released({"head", "fp8", "ngram"})
    /\ step \in {"start", "load"} => File(Ckpt, Config) = Released({})
    /\ step = "write" => mem = Released({"gptq"})
    /\ step = "over" => File(Ckpt, Config) = Released({"gptq"})

Prepared ==
  /\ ShardsDone /\ File(Ckpt, Extra) = Released({})
  /\ File(Ckpt, Index) = Released({"head", "fp8", "ngram"})
  /\ File(Ckpt, Config) = Released({"gptq"})

CleanInv == Scripted("clean") => Prepared /\ ~open /\ step \in {"start", "over"}

\* The files the last tool makes afresh are nobody else's, and every shard is there.
Separate ==
  /\ \A n \in Regen : Single(files, <<Variant, n>>)
  /\ \A s \in Shards : Has(files, <<Variant, Shard(s)>>)

MtpInv ==
  Scripted("mtp") =>
    /\ Prepared
    /\ step \in {"start", "link", "copy", "extra", "save", "read index", "index", "read config", "config", "over"}
    /\ open => step \in {"copy", "save", "index", "config"}
    /\ step \in {"link", "copy"} =>
         /\ todo \in SUBSET (Names \ Regen) /\ \A n \in todo : Has(files, <<Ckpt, n>>)
         /\ \A s \in Shards : Shard(s) \in todo \/ Has(files, <<Variant, Shard(s)>>)
    /\ step = "copy" => ~links /\ todo # {} /\ Fresh(<<Variant, CHOOSE n \in todo : TRUE>>)
    /\ step \notin {"start", "link", "copy"} => Separate
    /\ step = "save" => mem = Released({"mtp"}) /\ (open => Has(files, <<Variant, Extra>>))
    /\ step \in {"read index", "index", "read config", "config", "over"} =>
         File(Variant, Extra) = Released({"mtp"})
    /\ step = "index" =>
         mem = Released({"head", "fp8", "ngram", "mtp"}) /\ (open => Has(files, <<Variant, Index>>))
    /\ step \in {"read config", "config", "over"} =>
         File(Variant, Index) = Released({"head", "fp8", "ngram", "mtp"})
    /\ step = "config" => mem = Released({"gptq", "mtp"}) /\ (open => Has(files, <<Variant, Config>>))
    /\ step = "over" => File(Variant, Config) = Released({"gptq", "mtp"})

\* As long as upstream has not published again, a shard of the variant is converted,
\* whenever it was linked.
VariantInv ==
  links /\ release = 1 =>
    \A s \in Shards : Has(files, <<Variant, Shard(s)>>) =>
      File(Variant, Shard(s)) = [release |-> 1, marks |-> HeadMark(s) \cup SideMark(s)]

IInv ==
  /\ TypeInv /\ OneKind
  /\ DownloadInv /\ HeadInv /\ Fp8Inv /\ StripInv /\ ConfigInv /\ CleanInv /\ MtpInv
  /\ VariantInv
  /\ BackupsAreOriginals

----------------------------------------------------------------------------
(* What the operations do to a file system.                                *)

LEMMA ValOf ==
  ASSUME NEW fs, FileSystem(fs), NEW f \in fs, NEW e \in Entries, e \in f.entries
  PROVE  Has(fs, e) /\ Val(fs, e) = f.content
<1>1. Has(fs, e)
  BY DEF Has
<1>2. PICK g \in fs : g = (CHOOSE h \in fs : e \in h.entries) /\ e \in g.entries
  OBVIOUS
<1>3. g = f
  BY <1>2 DEF FileSystem
<1>. QED  BY <1>1, <1>2, <1>3 DEF Val

LEMMA NoFile ==
  ASSUME NEW fs, NEW e, ~Has(fs, e)
  PROVE  Val(fs, e) = Partial
BY DEF Val

LEMMA PartialType == Partial \in Contents /\ Partial.marks = {} /\ Partial.release = 0
BY DEF Partial, Contents, Marks

LEMMA ValType ==
  ASSUME NEW fs, FileSystem(fs), NEW e \in Entries
  PROVE  Val(fs, e) \in Contents
<1>1. CASE Has(fs, e)
  <2>1. PICK f \in fs : e \in f.entries
    BY <1>1 DEF Has
  <2>. QED  BY <2>1, ValOf DEF FileSystem
<1>2. CASE ~Has(fs, e)
  BY <1>2, NoFile, PartialType
<1>. QED  BY <1>1, <1>2

LEMMA TiedFacts ==
  ASSUME NEW fs, FileSystem(fs), NEW e \in Entries, NEW g \in Entries
  PROVE  /\ Tied(fs, e, e) <=> Has(fs, e)
         /\ Tied(fs, e, g) => Tied(fs, g, e) /\ Has(fs, e) /\ Has(fs, g) /\ Val(fs, e) = Val(fs, g)
<1>1. ASSUME Tied(fs, e, g)
      PROVE  Tied(fs, g, e) /\ Has(fs, e) /\ Has(fs, g) /\ Val(fs, e) = Val(fs, g)
  <2>1. PICK f \in fs : e \in f.entries /\ g \in f.entries
    BY <1>1 DEF Tied
  <2>. QED  BY <2>1, ValOf DEF Tied
<1>. QED  BY <1>1 DEF Tied, Has

\* rm
LEMMA WithoutFacts ==
  ASSUME NEW fs, FileSystem(fs), NEW es
  PROVE  LET W == Without(fs, es)
         IN  /\ FileSystem(W)
             /\ \A x \in Entries : Has(W, x) <=> x \notin es /\ Has(fs, x)
             /\ \A x \in Entries : x \notin es => Val(W, x) = Val(fs, x)
             /\ \A x, y \in Entries : Tied(W, x, y) <=> x \notin es /\ y \notin es /\ Tied(fs, x, y)
<1>1. PICK W : W = Without(fs, es)
  OBVIOUS
<1>2. ASSUME NEW f \in W
      PROVE  \E g \in fs : f = [entries |-> g.entries \ es, content |-> g.content]
  <2>1. PICK g \in fs : f = [g EXCEPT !.entries = @ \ es]
    BY <1>1 DEF Without
  <2>2. g = [entries |-> g.entries, content |-> g.content]
    BY DEF FileSystem
  <2>3. f = [entries |-> g.entries \ es, content |-> g.content]
    BY <2>1, <2>2
  <2>. QED  BY <2>3
<1>3. ASSUME NEW g \in fs, NEW x \in g.entries, x \notin es
      PROVE  \E f \in W : f.entries = g.entries \ es /\ f.content = g.content
  <2>1. g = [entries |-> g.entries, content |-> g.content]
    BY DEF FileSystem
  <2>2. PICK f : f = [g EXCEPT !.entries = @ \ es]
    OBVIOUS
  <2>3. f.entries = g.entries \ es /\ f.content = g.content
    BY <2>1, <2>2
  <2>4. f.entries # {}
    BY <1>3, <2>3
  <2>5. f \in W
    BY <1>1, <2>2, <2>4 DEF Without
  <2>. QED  BY <2>3, <2>5
<1>4. FileSystem(W)
  <2>1. \A f \in W : f \in [entries : SUBSET Entries, content : Contents]
    BY <1>2 DEF FileSystem
  <2>2. ASSUME NEW f \in W, NEW h \in W, NEW x \in Entries, x \in f.entries, x \in h.entries
        PROVE  f = h
    <3>1. PICK g \in fs : f = [entries |-> g.entries \ es, content |-> g.content]
      BY <1>2
    <3>2. PICK k \in fs : h = [entries |-> k.entries \ es, content |-> k.content]
      BY <1>2
    <3>3. x \in g.entries /\ x \in k.entries
      BY <2>2, <3>1, <3>2
    <3>. QED  BY <3>1, <3>2, <3>3 DEF FileSystem
  <2>. QED  BY <2>1, <2>2 DEF FileSystem
<1>5. \A x, y \in Entries : Tied(W, x, y) <=> x \notin es /\ y \notin es /\ Tied(fs, x, y)
  <2>1. ASSUME NEW x \in Entries, NEW y \in Entries, Tied(W, x, y)
        PROVE  x \notin es /\ y \notin es /\ Tied(fs, x, y)
    <3>1. PICK f \in W : x \in f.entries /\ y \in f.entries
      BY <2>1 DEF Tied
    <3>2. PICK g \in fs : f = [entries |-> g.entries \ es, content |-> g.content]
      BY <1>2
    <3>. QED  BY <3>1, <3>2 DEF Tied
  <2>2. ASSUME NEW x \in Entries, NEW y \in Entries, x \notin es, y \notin es, Tied(fs, x, y)
        PROVE  Tied(W, x, y)
    <3>1. PICK g \in fs : x \in g.entries /\ y \in g.entries
      BY <2>2 DEF Tied
    <3>2. PICK f \in W : f.entries = g.entries \ es /\ f.content = g.content
      BY <1>3, <2>2, <3>1
    <3>. QED  BY <2>2, <3>1, <3>2 DEF Tied
  <2>. QED  BY <2>1, <2>2
<1>6. \A x \in Entries : Has(W, x) <=> x \notin es /\ Has(fs, x)
  BY <1>4, <1>5, TiedFacts
<1>7. ASSUME NEW x \in Entries, x \notin es PROVE Val(W, x) = Val(fs, x)
  <2>1. CASE Has(fs, x)
    <3>1. PICK g \in fs : x \in g.entries
      BY <2>1 DEF Has
    <3>2. PICK f \in W : f.entries = g.entries \ es /\ f.content = g.content
      BY <1>3, <1>7, <3>1
    <3>. QED  BY <1>4, <1>7, <3>1, <3>2, ValOf
  <2>2. CASE ~Has(fs, x)
    BY <1>6, <2>2, NoFile
  <2>. QED  BY <2>1, <2>2
<1>. QED  BY <1>1, <1>4, <1>5, <1>6, <1>7

\* A file written in place.
LEMMA OverwrittenFacts ==
  ASSUME NEW fs, FileSystem(fs), NEW e \in Entries, NEW c \in Contents
  PROVE  LET W == Overwritten(fs, e, c)
         IN  /\ FileSystem(W)
             /\ \A x \in Entries : Has(W, x) <=> Has(fs, x)
             /\ \A x \in Entries : Val(W, x) = IF Tied(fs, x, e) THEN c ELSE Val(fs, x)
             /\ \A x, y \in Entries : Tied(W, x, y) <=> Tied(fs, x, y)
<1>1. PICK W : W = Overwritten(fs, e, c)
  OBVIOUS
<1>2. ASSUME NEW f \in W
      PROVE  \E g \in fs : f = [entries |-> g.entries, content |-> IF e \in g.entries THEN c ELSE g.content]
  <2>1. PICK g \in fs : f = IF e \in g.entries THEN [g EXCEPT !.content = c] ELSE g
    BY <1>1 DEF Overwritten
  <2>2. g = [entries |-> g.entries, content |-> g.content]
    BY DEF FileSystem
  <2>. QED  BY <2>1, <2>2
<1>3. ASSUME NEW g \in fs
      PROVE  \E f \in W : f.entries = g.entries /\ f.content = IF e \in g.entries THEN c ELSE g.content
  <2>1. g = [entries |-> g.entries, content |-> g.content]
    BY DEF FileSystem
  <2>2. PICK f \in W : f = IF e \in g.entries THEN [g EXCEPT !.content = c] ELSE g
    BY <1>1 DEF Overwritten
  <2>. QED  BY <2>1, <2>2
<1>4. FileSystem(W)
  <2>1. \A f \in W : f \in [entries : SUBSET Entries, content : Contents]
    BY <1>2 DEF FileSystem
  <2>2. ASSUME NEW f \in W, NEW h \in W, NEW x \in Entries, x \in f.entries, x \in h.entries
        PROVE  f = h
    <3>1. PICK g \in fs : f = [entries |-> g.entries, content |-> IF e \in g.entries THEN c ELSE g.content]
      BY <1>2
    <3>2. PICK k \in fs : h = [entries |-> k.entries, content |-> IF e \in k.entries THEN c ELSE k.content]
      BY <1>2
    <3>3. x \in g.entries /\ x \in k.entries
      BY <2>2, <3>1, <3>2
    <3>4. g = k
      BY <3>3 DEF FileSystem
    <3>. QED  BY <3>1, <3>2, <3>4
  <2>. QED  BY <2>1, <2>2 DEF FileSystem
<1>5. \A x, y \in Entries : Tied(W, x, y) <=> Tied(fs, x, y)
  BY <1>2, <1>3 DEF Tied
<1>6. \A x \in Entries : Has(W, x) <=> Has(fs, x)
  BY <1>4, <1>5, TiedFacts
<1>7. ASSUME NEW x \in Entries PROVE Val(W, x) = IF Tied(fs, x, e) THEN c ELSE Val(fs, x)
  <2>1. CASE Has(fs, x)
    <3>1. PICK g \in fs : x \in g.entries
      BY <2>1 DEF Has
    <3>2. PICK f \in W : f.entries = g.entries /\ f.content = IF e \in g.entries THEN c ELSE g.content
      BY <1>3
    <3>3. Val(W, x) = f.content /\ Val(fs, x) = g.content
      BY <1>4, <3>1, <3>2, ValOf
    <3>4. Tied(fs, x, e) <=> e \in g.entries
      BY <3>1 DEF Tied, FileSystem
    <3>. QED  BY <3>2, <3>3, <3>4
  <2>2. CASE ~Has(fs, x)
    BY <1>6, <2>2, NoFile, TiedFacts
  <2>. QED  BY <2>1, <2>2
<1>. QED  BY <1>1, <1>4, <1>5, <1>6, <1>7

\* A link to a file, under a name that was free.
LEMMA LinkedFacts ==
  ASSUME NEW fs, FileSystem(fs), NEW e \in Entries, NEW new \in Entries,
         Has(fs, e), ~Has(fs, new)
  PROVE  LET W == Linked(fs, e, new)
         IN  /\ FileSystem(W)
             /\ \A x \in Entries : Has(W, x) <=> x = new \/ Has(fs, x)
             /\ \A x \in Entries : Val(W, x) = IF x = new THEN Val(fs, e) ELSE Val(fs, x)
             /\ \A x, y \in Entries :
                  Tied(W, x, y) <=> Tied(fs, IF x = new THEN e ELSE x, IF y = new THEN e ELSE y)
<1>1. PICK W : W = Linked(fs, e, new)
  OBVIOUS
<1>2. ASSUME NEW f \in W
      PROVE  \E g \in fs : f = [entries |-> g.entries \cup {x \in {new} : e \in g.entries}, content |-> g.content]
  <2>1. PICK g \in fs : f = IF e \in g.entries THEN [g EXCEPT !.entries = @ \cup {new}] ELSE g
    BY <1>1 DEF Linked
  <2>2. g = [entries |-> g.entries, content |-> g.content]
    BY DEF FileSystem
  <2>3. CASE e \in g.entries
    <3>1. {x \in {new} : e \in g.entries} = {new}
      BY <2>3
    <3>2. f = [entries |-> g.entries \cup {new}, content |-> g.content]
      BY <2>1, <2>2, <2>3
    <3>. QED  BY <3>1, <3>2
  <2>4. CASE e \notin g.entries
    <3>1. g.entries \cup {x \in {new} : e \in g.entries} = g.entries
      BY <2>4
    <3>. QED  BY <2>1, <2>2, <2>4, <3>1
  <2>. QED  BY <2>3, <2>4
<1>3. ASSUME NEW g \in fs
      PROVE  \E f \in W : /\ f.content = g.content
                          /\ \A x : x \in f.entries <=> x \in g.entries \/ (x = new /\ e \in g.entries)
  <2>1. g = [entries |-> g.entries, content |-> g.content]
    BY DEF FileSystem
  <2>2. PICK f \in W : f = IF e \in g.entries THEN [g EXCEPT !.entries = @ \cup {new}] ELSE g
    BY <1>1 DEF Linked
  <2>3. CASE e \in g.entries
    BY <2>1, <2>2, <2>3
  <2>4. CASE e \notin g.entries
    BY <2>1, <2>2, <2>4
  <2>. QED  BY <2>3, <2>4
<1>4. FileSystem(W)
  <2>1. \A f \in W : f \in [entries : SUBSET Entries, content : Contents]
    BY <1>2 DEF FileSystem
  <2>2. ASSUME NEW f \in W, NEW h \in W, NEW x \in Entries, x \in f.entries, x \in h.entries
        PROVE  f = h
    <3>1. PICK g \in fs : f = [entries |-> g.entries \cup {z \in {new} : e \in g.entries}, content |-> g.content]
      BY <1>2
    <3>2. PICK k \in fs : h = [entries |-> k.entries \cup {z \in {new} : e \in k.entries}, content |-> k.content]
      BY <1>2
    <3>3. \A u \in fs : new \notin u.entries
      BY DEF Has
    <3>4. g = k
      <4>1. CASE x = new
        <5>1. e \in g.entries /\ e \in k.entries
          BY <2>2, <3>1, <3>2, <3>3, <4>1
        <5>. QED  BY <5>1 DEF FileSystem
      <4>2. CASE x # new
        <5>1. x \in g.entries /\ x \in k.entries
          BY <2>2, <3>1, <3>2, <4>2
        <5>. QED  BY <5>1 DEF FileSystem
      <4>. QED  BY <4>1, <4>2
    <3>. QED  BY <3>1, <3>2, <3>4
  <2>. QED  BY <2>1, <2>2 DEF FileSystem
<1>5. \A x, y \in Entries :
        Tied(W, x, y) <=> Tied(fs, IF x = new THEN e ELSE x, IF y = new THEN e ELSE y)
  <2>1. \A u \in fs : new \notin u.entries
    BY DEF Has
  <2>2. ASSUME NEW x \in Entries, NEW y \in Entries, Tied(W, x, y)
        PROVE  Tied(fs, IF x = new THEN e ELSE x, IF y = new THEN e ELSE y)
    <3>1. PICK f \in W : x \in f.entries /\ y \in f.entries
      BY <2>2 DEF Tied
    <3>2. PICK g \in fs : f = [entries |-> g.entries \cup {z \in {new} : e \in g.entries}, content |-> g.content]
      BY <1>2
    <3>3. (IF x = new THEN e ELSE x) \in g.entries /\ (IF y = new THEN e ELSE y) \in g.entries
      BY <2>1, <3>1, <3>2
    <3>. QED  BY <3>3 DEF Tied
  <2>3. ASSUME NEW x \in Entries, NEW y \in Entries,
               Tied(fs, IF x = new THEN e ELSE x, IF y = new THEN e ELSE y)
        PROVE  Tied(W, x, y)
    <3>1. PICK g \in fs : (IF x = new THEN e ELSE x) \in g.entries /\ (IF y = new THEN e ELSE y) \in g.entries
      BY <2>3 DEF Tied
    <3>2. PICK f \in W : \A z : z \in f.entries <=> z \in g.entries \/ (z = new /\ e \in g.entries)
      BY <1>3
    <3>3. x \in f.entries /\ y \in f.entries
      BY <3>1, <3>2
    <3>. QED  BY <3>3 DEF Tied
  <2>. QED  BY <2>2, <2>3
<1>6. \A x \in Entries : Has(W, x) <=> x = new \/ Has(fs, x)
  <2>1. \A x \in Entries : Has(W, x) <=> Tied(W, x, x)
    BY <1>4, TiedFacts
  <2>2. \A x \in Entries : Tied(fs, x, x) <=> Has(fs, x)
    BY TiedFacts
  <2>. QED  BY <1>5, <2>1, <2>2
<1>7. ASSUME NEW x \in Entries PROVE Val(W, x) = IF x = new THEN Val(fs, e) ELSE Val(fs, x)
  <2>1. CASE Has(W, x)
    <3>1. PICK z \in Entries : z = (IF x = new THEN e ELSE x) /\ Has(fs, z)
      BY <1>6, <2>1
    <3>2. PICK g \in fs : z \in g.entries
      BY <3>1 DEF Has
    <3>3. PICK f \in W : /\ f.content = g.content
                        /\ \A y : y \in f.entries <=> y \in g.entries \/ (y = new /\ e \in g.entries)
      BY <1>3
    <3>4. x \in f.entries
      BY <3>1, <3>2, <3>3
    <3>5. Val(W, x) = g.content /\ Val(fs, z) = g.content
      BY <1>4, <3>2, <3>3, <3>4, ValOf
    <3>. QED  BY <3>1, <3>5
  <2>2. CASE ~Has(W, x)
    <3>1. x # new /\ ~Has(fs, x)
      BY <1>6, <2>2
    <3>. QED  BY <2>2, <3>1, NoFile
  <2>. QED  BY <2>1, <2>2
<1>. QED  BY <1>1, <1>4, <1>5, <1>6, <1>7

\* A name that leads to a new file.
LEMMA ReplacedFacts ==
  ASSUME NEW fs, FileSystem(fs), NEW e \in Entries, NEW c \in Contents
  PROVE  LET W == Replaced(fs, e, c)
         IN  /\ FileSystem(W)
             /\ \A x \in Entries : Has(W, x) <=> x = e \/ Has(fs, x)
             /\ \A x \in Entries : Val(W, x) = IF x = e THEN c ELSE Val(fs, x)
             /\ \A x, y \in Entries :
                  Tied(W, x, y) <=> (x = e /\ y = e) \/ (x # e /\ y # e /\ Tied(fs, x, y))
<1>1. PICK U : U = Without(fs, {e})
  OBVIOUS
<1>2. /\ FileSystem(U)
      /\ \A x \in Entries : Has(U, x) <=> x # e /\ Has(fs, x)
      /\ \A x \in Entries : x # e => Val(U, x) = Val(fs, x)
      /\ \A x, y \in Entries : Tied(U, x, y) <=> x # e /\ y # e /\ Tied(fs, x, y)
  BY <1>1, WithoutFacts
<1>3. PICK n : n = [entries |-> {e}, content |-> c]
  OBVIOUS
<1>4. n \in [entries : SUBSET Entries, content : Contents] /\ n.entries = {e} /\ n.content = c
  BY <1>3
<1>5. PICK W : W = U \cup {n}
  OBVIOUS
<1>6. \A f \in U : e \notin f.entries
  BY <1>2 DEF Has
<1>7. FileSystem(W)
  BY <1>2, <1>4, <1>5, <1>6 DEF FileSystem
<1>8. \A x, y \in Entries : Tied(W, x, y) <=> (x = e /\ y = e) \/ Tied(U, x, y)
  BY <1>4, <1>5 DEF Tied
<1>9. \A x \in Entries : Has(W, x) <=> x = e \/ Has(U, x)
  BY <1>4, <1>5 DEF Has
<1>10. ASSUME NEW x \in Entries PROVE Val(W, x) = IF x = e THEN c ELSE Val(fs, x)
  <2>1. CASE x = e
    BY <1>4, <1>5, <1>7, <2>1, ValOf
  <2>2. CASE x # e /\ Has(U, x)
    <3>1. PICK f \in U : x \in f.entries
      BY <2>2 DEF Has
    <3>2. Val(U, x) = f.content /\ Val(W, x) = f.content
      BY <1>2, <1>5, <1>7, <3>1, ValOf
    <3>. QED  BY <1>2, <2>2, <3>2
  <2>3. CASE x # e /\ ~Has(U, x)
    BY <1>2, <1>9, <2>3, NoFile
  <2>. QED  BY <2>1, <2>2, <2>3
<1>. QED  BY <1>1, <1>2, <1>3, <1>5, <1>7, <1>8, <1>9, <1>10 DEF Replaced

\* mv
LEMMA RenamedFacts ==
  ASSUME NEW fs, FileSystem(fs), NEW e \in Entries, NEW new \in Entries, e # new, Has(fs, e)
  PROVE  LET W == Renamed(fs, e, new)
         IN  /\ FileSystem(W)
             /\ \A x \in Entries : Has(W, x) <=> x # e /\ (x = new \/ Has(fs, x))
             /\ \A x \in Entries \ {e} : Val(W, x) = IF x = new THEN Val(fs, e) ELSE Val(fs, x)
             /\ \A x, y \in Entries :
                  Tied(W, x, y) <=>
                    x # e /\ y # e /\ Tied(fs, IF x = new THEN e ELSE x, IF y = new THEN e ELSE y)
<1>1. PICK U : U = Without(fs, {new})
  OBVIOUS
<1>2. /\ FileSystem(U)
      /\ \A x \in Entries : Has(U, x) <=> x # new /\ Has(fs, x)
      /\ \A x \in Entries : x # new => Val(U, x) = Val(fs, x)
      /\ \A x, y \in Entries : Tied(U, x, y) <=> x # new /\ y # new /\ Tied(fs, x, y)
  BY <1>1, WithoutFacts
<1>3. PICK V : V = Linked(U, e, new)
  OBVIOUS
<1>4. Has(U, e) /\ ~Has(U, new)
  BY <1>2
<1>5. /\ FileSystem(V)
      /\ \A x \in Entries : Has(V, x) <=> x = new \/ Has(U, x)
      /\ \A x \in Entries : Val(V, x) = IF x = new THEN Val(U, e) ELSE Val(U, x)
      /\ \A x, y \in Entries :
           Tied(V, x, y) <=> Tied(U, IF x = new THEN e ELSE x, IF y = new THEN e ELSE y)
  BY <1>2, <1>3, <1>4, LinkedFacts
<1>6. PICK W : W = Without(V, {e})
  OBVIOUS
<1>7. /\ FileSystem(W)
      /\ \A x \in Entries : Has(W, x) <=> x # e /\ Has(V, x)
      /\ \A x \in Entries : x # e => Val(W, x) = Val(V, x)
      /\ \A x, y \in Entries : Tied(W, x, y) <=> x # e /\ y # e /\ Tied(V, x, y)
  BY <1>5, <1>6, WithoutFacts
<1>8. W = Renamed(fs, e, new)
  BY <1>1, <1>3, <1>6 DEF Renamed
<1>. QED  BY <1>2, <1>5, <1>7, <1>8

\* The hard-linked copy made by hand.
LEMMA CopiedFacts ==
  ASSUME NEW fs, FileSystem(fs)
  PROVE  LET W == {[f EXCEPT !.entries = @ \cup {<<Variant, e[2]>> : e \in @}] :
                     f \in Without(fs, {Variant} \X Names)}
         IN  /\ FileSystem(W)
             /\ \A d \in Dirs, n \in Names : Has(W, <<d, n>>) <=> Has(fs, <<Ckpt, n>>)
             /\ \A d \in Dirs, n \in Names : Val(W, <<d, n>>) = Val(fs, <<Ckpt, n>>)
             /\ \A b, d \in Dirs, m, n \in Names :
                  Tied(W, <<b, m>>, <<d, n>>) <=> Tied(fs, <<Ckpt, m>>, <<Ckpt, n>>)
<1>0. PICK W : W = {[f EXCEPT !.entries = @ \cup {<<Variant, e[2]>> : e \in @}] :
                      f \in Without(fs, {Variant} \X Names)}
  OBVIOUS
<1>1. PICK U : U = Without(fs, {Variant} \X Names)
  OBVIOUS
<1>2. \A n \in Names : /\ <<Ckpt, n>> \in Entries /\ <<Variant, n>> \in Entries
                       /\ <<Variant, n>> \in {Variant} \X Names
                       /\ <<Ckpt, n>> \notin {Variant} \X Names
  BY DEF Entries, Dirs, Ckpt, Variant
<1>3. /\ FileSystem(U)
      /\ \A n \in Names : /\ Has(U, <<Ckpt, n>>) <=> Has(fs, <<Ckpt, n>>)
                          /\ Val(U, <<Ckpt, n>>) = Val(fs, <<Ckpt, n>>)
                          /\ ~Has(U, <<Variant, n>>)
      /\ \A m, n \in Names :
           Tied(U, <<Ckpt, m>>, <<Ckpt, n>>) <=> Tied(fs, <<Ckpt, m>>, <<Ckpt, n>>)
  <2>1. PICK es : es = {Variant} \X Names
    OBVIOUS
  <2>2. U = Without(fs, es)
    BY <1>1, <2>1
  <2>3. /\ FileSystem(U)
        /\ \A x \in Entries : Has(U, x) <=> x \notin es /\ Has(fs, x)
        /\ \A x \in Entries : x \notin es => Val(U, x) = Val(fs, x)
        /\ \A x, y \in Entries : Tied(U, x, y) <=> x \notin es /\ y \notin es /\ Tied(fs, x, y)
    BY <2>2, WithoutFacts
  <2>4. \A n \in Names : <<Variant, n>> \in es /\ <<Ckpt, n>> \notin es
    BY <1>2, <2>1
  <2>. QED  BY <1>2, <2>3, <2>4
<1>4. ASSUME NEW g \in U, NEW x \in g.entries
      PROVE  \E n \in Names : x = <<Ckpt, n>>
  <2>1. x \in Entries
    BY <1>3 DEF FileSystem
  <2>2. PICK d \in Dirs, n \in Names : x = <<d, n>>
    BY <2>1 DEF Entries
  <2>3. d # Variant
    BY <1>3, <2>2 DEF Has
  <2>. QED  BY <2>2, <2>3 DEF Dirs
<1>. DEFINE Both(g) == g.entries \cup {<<Variant, e[2]>> : e \in g.entries}
<1>5. ASSUME NEW g \in U, NEW d \in Dirs, NEW n \in Names
      PROVE  <<d, n>> \in Both(g) <=> <<Ckpt, n>> \in g.entries
  <2>1. ASSUME <<d, n>> \in Both(g) PROVE <<Ckpt, n>> \in g.entries
    <3>1. CASE <<d, n>> \in g.entries
      <4>1. PICK k \in Names : <<d, n>> = <<Ckpt, k>>
        BY <1>4, <3>1
      <4>. QED  BY <3>1, <4>1
    <3>2. CASE \E e \in g.entries : <<d, n>> = <<Variant, e[2]>>
      <4>1. PICK e \in g.entries : <<d, n>> = <<Variant, e[2]>>
        BY <3>2
      <4>2. PICK k \in Names : e = <<Ckpt, k>>
        BY <1>4
      <4>3. n = k
        BY <4>1, <4>2
      <4>. QED  BY <4>2, <4>3
    <3>. QED  BY <2>1, <3>1, <3>2
  <2>2. ASSUME <<Ckpt, n>> \in g.entries PROVE <<d, n>> \in Both(g)
    <3>1. <<Variant, <<Ckpt, n>>[2]>> \in Both(g)
      BY <2>2
    <3>2. <<Ckpt, n>>[2] = n
      OBVIOUS
    <3>. QED  BY <2>2, <3>1, <3>2 DEF Dirs
  <2>. QED  BY <2>1, <2>2
<1>6. ASSUME NEW g \in U
      PROVE  Both(g) \in SUBSET Entries
  <2>1. g.entries \in SUBSET Entries
    BY <1>3 DEF FileSystem
  <2>2. ASSUME NEW e \in g.entries PROVE <<Variant, e[2]>> \in Entries
    BY <1>2, <1>4
  <2>. QED  BY <2>1, <2>2
<1>7. ASSUME NEW f \in W
      PROVE  \E g \in U : f = [entries |-> Both(g), content |-> g.content]
  <2>1. PICK g \in U : f = [g EXCEPT !.entries = @ \cup {<<Variant, e[2]>> : e \in @}]
    BY <1>0, <1>1
  <2>2. g = [entries |-> g.entries, content |-> g.content]
    BY <1>3 DEF FileSystem
  <2>. QED  BY <2>1, <2>2
<1>8. ASSUME NEW g \in U
      PROVE  \E f \in W : f = [entries |-> Both(g), content |-> g.content]
  <2>1. PICK f \in W : f = [g EXCEPT !.entries = @ \cup {<<Variant, e[2]>> : e \in @}]
    BY <1>0, <1>1
  <2>2. g = [entries |-> g.entries, content |-> g.content]
    BY <1>3 DEF FileSystem
  <2>. QED  BY <2>1, <2>2
<1>. HIDE DEF Both
<1>9. FileSystem(W)
  <2>1. ASSUME NEW f \in W PROVE f \in [entries : SUBSET Entries, content : Contents]
    <3>1. PICK g \in U : f = [entries |-> Both(g), content |-> g.content]
      BY <1>7
    <3>2. g.content \in Contents
      BY <1>3 DEF FileSystem
    <3>. QED  BY <1>6, <3>1, <3>2
  <2>2. ASSUME NEW f \in W, NEW h \in W, NEW x \in Entries, x \in f.entries, x \in h.entries
        PROVE  f = h
    <3>1. PICK g \in U : f = [entries |-> Both(g), content |-> g.content]
      BY <1>7
    <3>2. PICK k \in U : h = [entries |-> Both(k), content |-> k.content]
      BY <1>7
    <3>3. PICK d \in Dirs, n \in Names : x = <<d, n>>
      BY DEF Entries
    <3>4. <<Ckpt, n>> \in g.entries /\ <<Ckpt, n>> \in k.entries
      BY <1>5, <2>2, <3>1, <3>2, <3>3
    <3>5. g = k
      BY <1>2, <1>3, <3>4 DEF FileSystem
    <3>. QED  BY <3>1, <3>2, <3>5
  <2>. QED  BY <2>1, <2>2 DEF FileSystem
<1>10. ASSUME NEW b \in Dirs, NEW d \in Dirs, NEW m \in Names, NEW n \in Names
       PROVE  Tied(W, <<b, m>>, <<d, n>>) <=> Tied(U, <<Ckpt, m>>, <<Ckpt, n>>)
  <2>1. ASSUME Tied(W, <<b, m>>, <<d, n>>) PROVE Tied(U, <<Ckpt, m>>, <<Ckpt, n>>)
    <3>1. PICK f \in W : <<b, m>> \in f.entries /\ <<d, n>> \in f.entries
      BY <2>1 DEF Tied
    <3>2. PICK g \in U : f = [entries |-> Both(g), content |-> g.content]
      BY <1>7
    <3>. QED  BY <1>5, <3>1, <3>2 DEF Tied
  <2>2. ASSUME Tied(U, <<Ckpt, m>>, <<Ckpt, n>>) PROVE Tied(W, <<b, m>>, <<d, n>>)
    <3>1. PICK g \in U : <<Ckpt, m>> \in g.entries /\ <<Ckpt, n>> \in g.entries
      BY <2>2 DEF Tied
    <3>2. PICK f \in W : f = [entries |-> Both(g), content |-> g.content]
      BY <1>8
    <3>. QED  BY <1>5, <3>1, <3>2 DEF Tied
  <2>. QED  BY <2>1, <2>2
<1>11. \A d \in Dirs, n \in Names : Has(W, <<d, n>>) <=> Has(U, <<Ckpt, n>>)
  <2>. SUFFICES ASSUME NEW d \in Dirs, NEW n \in Names
                PROVE  Has(W, <<d, n>>) <=> Has(U, <<Ckpt, n>>)
    OBVIOUS
  <2>1. <<d, n>> \in Entries /\ <<Ckpt, n>> \in Entries
    BY <1>2 DEF Dirs
  <2>2. Has(W, <<d, n>>) <=> Tied(W, <<d, n>>, <<d, n>>)
    BY <1>9, <2>1, TiedFacts
  <2>3. Has(U, <<Ckpt, n>>) <=> Tied(U, <<Ckpt, n>>, <<Ckpt, n>>)
    BY <1>3, <2>1, TiedFacts
  <2>. QED  BY <1>10, <2>2, <2>3
<1>12. ASSUME NEW d \in Dirs, NEW n \in Names PROVE Val(W, <<d, n>>) = Val(U, <<Ckpt, n>>)
  <2>1. CASE Has(U, <<Ckpt, n>>)
    <3>1. PICK g \in U : <<Ckpt, n>> \in g.entries
      BY <2>1 DEF Has
    <3>2. PICK f \in W : f = [entries |-> Both(g), content |-> g.content]
      BY <1>8
    <3>3. <<d, n>> \in f.entries /\ f.content = g.content
      BY <1>5, <3>1, <3>2
    <3>4. <<d, n>> \in Entries /\ <<Ckpt, n>> \in Entries
      BY <1>2 DEF Dirs
    <3>5. Val(W, <<d, n>>) = f.content
      BY <1>9, <3>3, <3>4, ValOf
    <3>6. Val(U, <<Ckpt, n>>) = g.content
      BY <1>3, <3>1, <3>4, ValOf
    <3>. QED  BY <3>3, <3>5, <3>6
  <2>2. CASE ~Has(U, <<Ckpt, n>>)
    BY <1>11, <2>2, NoFile
  <2>. QED  BY <2>1, <2>2
<1>. QED  BY <1>0, <1>3, <1>9, <1>10, <1>11, <1>12

----------------------------------------------------------------------------
(* Names, contents and the loop of fp8_convert.                            *)

LEMMA SideShardsAre ==
  /\ ToSet(SideShards) \subseteq Shards
  /\ ToSet(SideShards) = {SideShards[i] : i \in DOMAIN SideShards}
  /\ DOMAIN SideShards = 1 .. Len(SideShards) /\ Len(SideShards) \in Nat
BY ShardsAssumption DEF ToSet

LEMMA NameFacts ==
  /\ Names = ShardKind \cup {Extra, Index, Config, IndexBak, ConfigBak}
  /\ ShardKind \cap {Extra, Index, Config, IndexBak, ConfigBak} = {}
  /\ Extra # Index /\ Extra # Config /\ Index # Config
  /\ {Extra, Index, Config} \cap {IndexBak, ConfigBak} = {} /\ IndexBak # ConfigBak
  /\ HeadBak \notin ShardFiles /\ HeadBak \notin SideBaks /\ ShardFiles \cap SideBaks = {}
  /\ Repo = ShardFiles \cup {Extra, Index, Config}
  /\ Regen = {Extra, Index, Config}
  /\ \A s \in Shards : Shard(s) \in ShardFiles
  /\ \A s, t \in Shards : Shard(s) = Shard(t) => s = t
<1>1. Names = ShardKind \cup {Extra, Index, Config, IndexBak, ConfigBak}
  BY DEF Names, Repo, ShardKind
<1>2. ShardKind \cap {Extra, Index, Config, IndexBak, ConfigBak} = {}
  <2>1. ASSUME NEW s \in Shards, NEW x
        PROVE  <<s, x>> \notin {Extra, Index, Config, IndexBak, ConfigBak}
    BY ShardsAssumption DEF Extra, Index, Config, IndexBak, ConfigBak
  <2>2. ASSUME NEW n \in ShardKind
        PROVE  \E s \in Shards : \E x : n = <<s, x>>
    <3>1. CASE n \in ShardFiles
      BY <3>1 DEF ShardFiles, Shard
    <3>2. CASE n \in SideBaks
      BY <3>2, SideShardsAre DEF SideBaks, SideBak
    <3>3. CASE n = HeadBak
      BY <3>3, ShardsAssumption DEF HeadBak
    <3>. QED  BY <3>1, <3>2, <3>3 DEF ShardKind
  <2>. QED  BY <2>1, <2>2
<1>3. /\ Extra # Index /\ Extra # Config /\ Index # Config
      /\ {Extra, Index, Config} \cap {IndexBak, ConfigBak} = {} /\ IndexBak # ConfigBak
  BY DEF Extra, Index, Config, IndexBak, ConfigBak
<1>4. /\ HeadBak \notin ShardFiles /\ HeadBak \notin SideBaks /\ ShardFiles \cap SideBaks = {}
  <2>1. \A s, r : Shard(s) # SideBak(r) /\ Shard(s) # HeadBak /\ SideBak(r) # HeadBak
    BY DEF Shard, SideBak, HeadBak
  <2>. QED  BY <2>1 DEF ShardFiles, SideBaks
<1>. QED  BY <1>1, <1>2, <1>3, <1>4 DEF Repo, Regen, ShardFiles, Shard

LEMMA NamesAre ==
  /\ \A n \in Repo : n \in Names /\ <<Ckpt, n>> \in Entries /\ <<Variant, n>> \in Entries
  /\ \A n \in SideBaks \cup {HeadBak} : n \in Names /\ n \in ShardKind /\ n \notin Repo
  /\ \A s \in Shards : Shard(s) \in Repo /\ Shard(s) \in ShardKind /\ Shard(s) \notin Regen
  /\ IndexBak \in Names /\ ConfigBak \in Names /\ IndexBak \notin Repo /\ ConfigBak \notin Repo
  /\ \A n \in Regen : n \in Repo /\ n \notin ShardKind /\ n \notin ShardFiles
  /\ HeadShard \in Shards
  /\ Ckpt # Variant /\ Ckpt \in Dirs /\ Variant \in Dirs
BY NameFacts, ShardsAssumption DEF Entries, Dirs, ShardKind, Ckpt, Variant

LEMMA WithFacts ==
  ASSUME NEW c \in Contents, NEW m \in Marks
  PROVE  /\ With(c, m) \in Contents
         /\ With(c, m).marks = c.marks \cup {m} /\ With(c, m).release = c.release
BY DEF With, Contents

LEMMA WithReleased ==
  ASSUME NEW ms, NEW m
  PROVE  With(Released(ms), m) = Released(ms \cup {m})
BY DEF With, Released

LEMMA ReleasedFacts ==
  ASSUME TypeInv, NEW ms \in SUBSET Marks
  PROVE  /\ Released(ms) \in Contents /\ Released(ms) # Partial /\ Released(ms).marks = ms
         /\ Original(fetched) = Released({})
BY DEF Released, Contents, Partial, TypeInv, Original

LEMMA FileVal ==
  /\ \A d, n : File(d, n) = Val(files, <<d, n>>)
  /\ \A d, n : Exists(d, n) <=> Has(files, <<d, n>>)
BY DEF File, Exists, Val, Has

LEMMA FileValNext ==
  \A d, n : File(d, n)' = Val(files', <<d, n>>)
BY DEF File, Exists, Val, Has

LEMMA FileFacts ==
  ASSUME TypeInv, NEW d \in Dirs, NEW n \in Names
  PROVE  /\ File(d, n) \in Contents /\ File(d, n).marks \in SUBSET Marks
         /\ Readable(d, n) => Has(files, <<d, n>>)
         /\ ~Has(files, <<d, n>>) => File(d, n) = Partial
<1>1. <<d, n>> \in Entries /\ FileSystem(files)
  BY DEF Entries, TypeInv
<1>. QED  BY <1>1, FileVal, ValType, NoFile DEF Readable, Contents

LEMMA MinExists ==
  ASSUME NEW S \in SUBSET Nat, S # {}
  PROVE  Min(S) \in S /\ \A x \in S : Min(S) <= x
<1>. DEFINE Below == {0 .. x : x \in S}
<1>1. IsWellFoundedOn(StrictSubsetOrdering(Nat), FiniteSubsetsOf(Nat))
  BY FS_StrictSubsetOrderingWellFounded
<1>2. Below \subseteq FiniteSubsetsOf(Nat) /\ Below # {}
  <2>1. ASSUME NEW x \in S PROVE 0 .. x \in FiniteSubsetsOf(Nat)
    BY FS_Interval DEF FiniteSubsetsOf
  <2>. QED  BY <2>1
<1>3. PICK b \in Below : \A c \in Below : ~(<<c, b>> \in StrictSubsetOrdering(Nat))
  BY <1>1, <1>2, WFMin
<1>4. PICK m \in S : b = 0 .. m
  BY <1>3
<1>5. ASSUME NEW y \in S, y < m PROVE FALSE
  <2>1. 0 .. y \in Below /\ 0 .. y \subseteq 0 .. m /\ 0 .. y # 0 .. m
    BY <1>5
  <2>2. 0 .. y \in SUBSET Nat /\ 0 .. m \in SUBSET Nat
    OBVIOUS
  <2>3. <<0 .. y, 0 .. m>> \in StrictSubsetOrdering(Nat)
    BY <2>1, <2>2 DEF StrictSubsetOrdering
  <2>. QED  BY <1>3, <1>4, <2>1, <2>3
<1>6. \A y \in S : m <= y
  BY <1>5
<1>. QED  BY <1>6 DEF Min

\* The shard of an iteration is one still to do.
LEMMA CurrentIs ==
  ASSUME todo \in SUBSET ToSet(SideShards), todo # {}
  PROVE  Current \in todo /\ Current \in Shards /\ Current \in ToSet(SideShards)
<1>. DEFINE I == {i \in DOMAIN SideShards : SideShards[i] \in todo}
<1>1. I \in SUBSET Nat /\ I # {}
  BY SideShardsAre
<1>2. Min(I) \in I
  BY <1>1, MinExists
<1>. QED  BY <1>2, SideShardsAre DEF Current


----------------------------------------------------------------------------
(* What the operations of the tools do to the files.                       *)

\* open, write and close, whatever the file and whoever links to it.
LEMMA WriteFiles ==
  ASSUME TypeInv, NEW d \in Dirs, NEW n \in Names, NEW c \in Contents, NEW then,
         Write(d, n, c, then), open => Has(files, <<d, n>>)
  PROVE  /\ FileSystem(files')
         /\ \A x \in Entries : Has(files', x) <=> x = <<d, n>> \/ Has(files, x)
         /\ \A x \in Entries : Val(files', x) = IF x = <<d, n>> \/ Tied(files, x, <<d, n>>)
                                                THEN IF open THEN c ELSE Partial
                                                ELSE Val(files, x)
         /\ \A x, y \in Entries :
              Tied(files', x, y) <=> (x = <<d, n>> /\ y = <<d, n>>) \/ Tied(files, x, y)
<1>1. PICK e \in Entries : e = <<d, n>>
  BY DEF Entries
<1>2. FileSystem(files)
  BY DEF TypeInv
<1>3. Has(files, e) => Tied(files, e, e)
  BY <1>2, TiedFacts
<1>4. CASE open
  <2>1. files' = Overwritten(files, e, c)
    BY <1>1, <1>4 DEF Write
  <2>2. /\ FileSystem(files')
        /\ \A x \in Entries : Has(files', x) <=> Has(files, x)
        /\ \A x \in Entries : Val(files', x) = IF Tied(files, x, e) THEN c ELSE Val(files, x)
        /\ \A x, y \in Entries : Tied(files', x, y) <=> Tied(files, x, y)
    BY <1>2, <2>1, OverwrittenFacts
  <2>. QED  BY <1>1, <1>3, <1>4, <2>2
<1>5. CASE ~open /\ Has(files, e)
  <2>1. files' = Overwritten(files, e, Partial)
    BY <1>1, <1>5, FileVal DEF Write
  <2>2. /\ FileSystem(files')
        /\ \A x \in Entries : Has(files', x) <=> Has(files, x)
        /\ \A x \in Entries : Val(files', x) = IF Tied(files, x, e) THEN Partial ELSE Val(files, x)
        /\ \A x, y \in Entries : Tied(files', x, y) <=> Tied(files, x, y)
    BY <1>2, <2>1, OverwrittenFacts, PartialType
  <2>. QED  BY <1>1, <1>3, <1>5, <2>2
<1>6. CASE ~open /\ ~Has(files, e)
  <2>1. files' = Replaced(files, e, Partial)
    BY <1>1, <1>6, FileVal DEF Write
  <2>2. /\ FileSystem(files')
        /\ \A x \in Entries : Has(files', x) <=> x = e \/ Has(files, x)
        /\ \A x \in Entries : Val(files', x) = IF x = e THEN Partial ELSE Val(files, x)
        /\ \A x, y \in Entries :
             Tied(files', x, y) <=> (x = e /\ y = e) \/ (x # e /\ y # e /\ Tied(files, x, y))
    BY <1>2, <2>1, ReplacedFacts, PartialType
  <2>3. \A x \in Entries : ~Tied(files, x, e) /\ ~Tied(files, e, x)
    BY <1>2, <1>6, TiedFacts
  <2>. QED  BY <1>1, <1>6, <2>2, <2>3
<1>. QED  BY <1>1, <1>4, <1>5, <1>6

\* Of what a backup must not hold.
Backup(n, c) ==
  /\ n = HeadBak => c.marks = {}
  /\ n \in SideBaks => "fp8" \in byHand \/ "fp8" \notin c.marks
  /\ n = IndexBak => "ngram" \notin c.marks
  /\ n = ConfigBak => "gptq" \notin c.marks

LEMMA BackupsAre ==
  BackupsAreOriginals <=> \A d \in Dirs, n \in Names : Backup(n, File(d, n))
<1>1. \A n \in SideBaks : n \in Names
  BY NamesAre
<1>2. HeadBak \in Names /\ IndexBak \in Names /\ ConfigBak \in Names
  BY NamesAre
<1>. QED  BY <1>1, <1>2 DEF BackupsAreOriginals, Backup, Dirs

LEMMA BackupsAreNext ==
  ASSUME "fp8" \in byHand => "fp8" \in byHand',
         \A d \in Dirs, n \in Names : Backup(n, File(d, n)')
  PROVE  BackupsAreOriginals'
<1>. SUFFICES ASSUME NEW d \in {Ckpt, Variant}
              PROVE  /\ File(d, HeadBak)'.marks = {}
                     /\ "fp8" \in byHand' \/ \A n \in SideBaks : "fp8" \notin File(d, n)'.marks
                     /\ "ngram" \notin File(d, IndexBak)'.marks
                     /\ "gptq" \notin File(d, ConfigBak)'.marks
  BY DEF BackupsAreOriginals
<1>1. d \in Dirs
  BY DEF Dirs
<1>. QED  BY <1>1, NamesAre DEF Backup

LEMMA BackupPartial ==
  ASSUME NEW n
  PROVE  Backup(n, Partial)
BY PartialType DEF Backup

\* A file written that is nobody else's, or not a shard nor a shard's backup: no file of
\* another name changes.
LEMMA WriteFrame ==
  ASSUME TypeInv, OneKind, BackupsAreOriginals,
         NEW d \in Dirs, NEW n \in Names, NEW c \in Contents, NEW then, then # "stopped", step # "stopped",
         Write(d, n, c, then), open => Has(files, <<d, n>>),
         n \in ShardKind => Fresh(<<d, n>>), Backup(n, c)
  PROVE  /\ TypeInv' /\ OneKind' /\ BackupsAreOriginals'
         /\ \A b \in Dirs, m \in Names : m # n => File(b, m)' = File(b, m)
         /\ \A b \in Dirs : n \in ShardKind /\ b # d => File(b, n)' = File(b, n)
         /\ Single(files, <<d, n>>) \/ Fresh(<<d, n>>) =>
              \A b \in Dirs \ {d} : File(b, n)' = File(b, n)
         /\ \A b \in Dirs : File(b, n)' \in {File(b, n), IF open THEN c ELSE Partial}
         /\ File(d, n)' = IF open THEN c ELSE Partial
         /\ \A x \in Entries : Has(files', x) <=> x = <<d, n>> \/ Has(files, x)
         /\ \A x \in Entries : Single(files, x) => Single(files', x)
         /\ ~Has(files, <<d, n>>) => Single(files', <<d, n>>)
         /\ open' = ~open /\ step' = IF open THEN then ELSE step
         /\ UNCHANGED <<links, release, tool, fetched, idx, mem, todo, crashes, alone, byHand>>
<1>1. PICK e \in Entries : e = <<d, n>>
  BY DEF Entries
<1>2. /\ FileSystem(files')
      /\ \A x \in Entries : Has(files', x) <=> x = e \/ Has(files, x)
      /\ \A x \in Entries : Val(files', x) = IF x = e \/ Tied(files, x, e)
                                             THEN IF open THEN c ELSE Partial
                                             ELSE Val(files, x)
      /\ \A x, y \in Entries : Tied(files', x, y) <=> (x = e /\ y = e) \/ Tied(files, x, y)
  BY <1>1, WriteFiles
<1>3. /\ open' = ~open /\ step' = IF open THEN then ELSE step
      /\ UNCHANGED <<links, release, tool, fetched, idx, mem, todo, crashes, alone, byHand>>
  BY DEF Write, memory, hand, TypeInv
<1>4. TypeInv'
  <2>1. step' = "stopped" => ~open'
    BY <1>3 DEF TypeInv
  <2>2. open' \in BOOLEAN
    BY <1>3
  <2>. QED  BY <1>2, <1>3, <2>1, <2>2 DEF TypeInv
<1>5. OneKind'
  <2>. SUFFICES ASSUME NEW a \in Dirs, NEW b \in Dirs, NEW k \in Names, NEW m \in Names,
                       Tied(files', <<a, k>>, <<b, m>>)
                PROVE  k = m \/ (k \in ShardKind /\ m \in ShardKind)
    BY DEF OneKind, ShardKind
  <2>1. <<a, k>> \in Entries /\ <<b, m>> \in Entries
    BY DEF Entries
  <2>. QED  BY <1>1, <1>2, <2>1 DEF OneKind
<1>6. ASSUME NEW b \in Dirs, NEW m \in Names, Tied(files, <<b, m>>, e)
      PROVE  m = n /\ (n \in ShardKind \/ Single(files, e) \/ Fresh(e) => b = d)
  <2>1. <<b, m>> \in Entries /\ FileSystem(files)
    BY DEF Entries, TypeInv
  <2>2. ASSUME n \in ShardKind \/ Single(files, e) \/ Fresh(e)
        PROVE  m = n /\ b = d
    <3>1. Has(files, e) /\ Tied(files, e, <<b, m>>)
      BY <1>6, <2>1, TiedFacts
    <3>2. Single(files, e)
      BY <1>1, <2>2, <3>1 DEF Fresh
    <3>. QED  BY <1>1, <2>1, <3>1, <3>2 DEF Single
  <2>3. n \notin ShardKind => m = n
    BY <1>1, <1>6 DEF OneKind
  <2>. QED  BY <2>2, <2>3
<1>7. ASSUME NEW b \in Dirs, NEW m \in Names
      PROVE  <<b, m>> \in Entries /\ File(b, m) = Val(files, <<b, m>>) /\ File(b, m)' = Val(files', <<b, m>>)
  BY FileVal, FileValNext DEF Entries
<1>8. /\ \A b \in Dirs, m \in Names : m # n => File(b, m)' = File(b, m)
      /\ \A b \in Dirs : n \in ShardKind /\ b # d => File(b, n)' = File(b, n)
      /\ Single(files, e) \/ Fresh(e) => \A b \in Dirs \ {d} : File(b, n)' = File(b, n)
  <2>. SUFFICES ASSUME NEW b \in Dirs, NEW m \in Names,
                       m # n \/ ((n \in ShardKind \/ Single(files, e) \/ Fresh(e)) /\ b # d)
                PROVE  File(b, m)' = File(b, m)
    OBVIOUS
  <2>1. ~Tied(files, <<b, m>>, e) /\ <<b, m>> # e
    BY <1>1, <1>6
  <2>2. <<b, m>> \in Entries /\ File(b, m) = Val(files, <<b, m>>) /\ File(b, m)' = Val(files', <<b, m>>)
    BY <1>7
  <2>. QED  BY <1>2, <2>1, <2>2
<1>9. /\ \A b \in Dirs : File(b, n)' \in {File(b, n), IF open THEN c ELSE Partial}
      /\ File(d, n)' = IF open THEN c ELSE Partial
  BY <1>1, <1>2, <1>7
<1>10. BackupsAreOriginals'
  <2>1. \A b \in Dirs, m \in Names : Backup(m, File(b, m))
    BY BackupsAre
  <2>2. ASSUME NEW b \in Dirs, NEW m \in Names PROVE Backup(m, File(b, m)')
    BY <1>8, <1>9, <2>1, BackupPartial
  <2>. QED  BY <1>3, <2>2, BackupsAreNext
<1>11. ASSUME NEW x \in Entries, Single(files, x) PROVE Single(files', x)
  BY <1>2, <1>11 DEF Single
<1>12. ASSUME ~Has(files, e) PROVE Single(files', e)
  <2>1. FileSystem(files)
    BY DEF TypeInv
  <2>2. \A y \in Entries : ~Tied(files, e, y)
    BY <1>12, <2>1, TiedFacts
  <2>. QED  BY <1>2, <2>2 DEF Single
<1>. QED  BY <1>1, <1>2, <1>3, <1>4, <1>5, <1>8, <1>9, <1>10, <1>11, <1>12

LEMMA VariantKept ==
  ASSUME VariantInv, UNCHANGED <<links, release>>,
         \A s \in Shards : Has(files', <<Variant, Shard(s)>>) =>
           Has(files, <<Variant, Shard(s)>>) /\ File(Variant, Shard(s))' = File(Variant, Shard(s))
  PROVE  VariantInv'
BY DEF VariantInv, HeadMark, SideMark

\* A file written that is not a shard of the variant.
LEMMA WriteKeepsVariant ==
  ASSUME VariantInv, UNCHANGED <<links, release>>, NEW d \in Dirs, NEW n \in Names,
         n \notin ShardFiles \/ d = Ckpt,
         \A b \in Dirs, m \in Names : m # n => File(b, m)' = File(b, m),
         \A b \in Dirs : n \in ShardKind /\ b # d => File(b, n)' = File(b, n),
         \A x \in Entries : Has(files', x) <=> x = <<d, n>> \/ Has(files, x)
  PROVE  VariantInv'
<1>. SUFFICES ASSUME NEW s \in Shards, Has(files', <<Variant, Shard(s)>>)
              PROVE  Has(files, <<Variant, Shard(s)>>) /\ File(Variant, Shard(s))' = File(Variant, Shard(s))
  BY VariantKept
<1>1. /\ Shard(s) \in ShardFiles /\ Shard(s) \in ShardKind /\ Shard(s) \in Names
      /\ <<Variant, Shard(s)>> \in Entries /\ Variant \in Dirs /\ Ckpt # Variant
  BY NamesAre, NameFacts
<1>2. <<Variant, Shard(s)>> # <<d, n>>
  BY <1>1
<1>3. Has(files, <<Variant, Shard(s)>>)
  BY <1>1, <1>2
<1>4. CASE n = Shard(s)
  BY <1>1, <1>3, <1>4
<1>5. CASE n # Shard(s)
  BY <1>1, <1>3, <1>5
<1>. QED  BY <1>4, <1>5

\* A shard moved to its backup.
LEMMA MoveFrame ==
  ASSUME FileSystem(files), OneKind, BackupsAreOriginals, VariantInv,
         NEW m \in ShardKind, NEW k \in ShardKind, m # k, Has(files, <<Ckpt, m>>),
         files' = Renamed(files, <<Ckpt, m>>, <<Ckpt, k>>),
         UNCHANGED <<links, release, byHand>>, Backup(k, File(Ckpt, m))
  PROVE  /\ FileSystem(files') /\ OneKind' /\ BackupsAreOriginals' /\ VariantInv'
         /\ ~Has(files', <<Ckpt, m>>)
         /\ \A n \in Names \ {m, k} : File(Ckpt, n)' = File(Ckpt, n)
<1>1. m \in Names /\ k \in Names /\ Ckpt \in Dirs /\ Variant \in Dirs /\ Ckpt # Variant
  BY NameFacts, NamesAre
<1>2. PICK e \in Entries, new \in Entries : e = <<Ckpt, m>> /\ new = <<Ckpt, k>>
  BY <1>1 DEF Entries
<1>3. e # new
  BY <1>2
<1>4. /\ FileSystem(files')
      /\ \A x \in Entries : Has(files', x) <=> x # e /\ (x = new \/ Has(files, x))
      /\ \A x \in Entries \ {e} : Val(files', x) = IF x = new THEN Val(files, e) ELSE Val(files, x)
      /\ \A x, y \in Entries :
           Tied(files', x, y) <=>
             x # e /\ y # e /\ Tied(files, IF x = new THEN e ELSE x, IF y = new THEN e ELSE y)
  BY <1>2, <1>3, RenamedFacts
<1>5. ASSUME NEW b \in Dirs, NEW n \in Names
      PROVE  <<b, n>> \in Entries /\ File(b, n) = Val(files, <<b, n>>) /\ File(b, n)' = Val(files', <<b, n>>)
  BY FileVal, FileValNext DEF Entries
<1>6. ASSUME NEW b \in Dirs, NEW n \in Names
      PROVE  /\ <<b, n>> # e /\ <<b, n>> # new => File(b, n)' = File(b, n)
             /\ <<b, n>> = e => File(b, n)' = Partial
             /\ <<b, n>> = new => n = k /\ File(b, n)' = File(Ckpt, m)
  <2>1. ASSUME <<b, n>> # e, <<b, n>> # new PROVE File(b, n)' = File(b, n)
    BY <1>4, <1>5, <2>1
  <2>2. ASSUME <<b, n>> = e PROVE File(b, n)' = Partial
    BY <1>4, <1>5, <2>2, NoFile
  <2>3. ASSUME <<b, n>> = new PROVE n = k /\ File(b, n)' = File(Ckpt, m)
    BY <1>1, <1>2, <1>3, <1>4, <1>5, <2>3
  <2>. QED  BY <2>1, <2>2, <2>3
<1>7. OneKind'
  <2>. SUFFICES ASSUME NEW a \in Dirs, NEW b \in Dirs, NEW p \in Names, NEW q \in Names,
                       Tied(files', <<a, p>>, <<b, q>>)
                PROVE  p = q \/ (p \in ShardKind /\ q \in ShardKind)
    BY DEF OneKind, ShardKind
  <2>1. <<a, p>> \in Entries /\ <<b, q>> \in Entries
    BY DEF Entries
  <2>2. Tied(files, IF <<a, p>> = new THEN e ELSE <<a, p>>, IF <<b, q>> = new THEN e ELSE <<b, q>>)
    BY <1>4, <2>1
  <2>3. CASE <<a, p>> = new /\ <<b, q>> = new
    BY <1>2, <2>3
  <2>4. CASE <<a, p>> = new /\ <<b, q>> # new
    <3>1. Tied(files, <<Ckpt, m>>, <<b, q>>) /\ p = k
      BY <1>2, <2>2, <2>4
    <3>. QED  BY <1>1, <3>1 DEF OneKind
  <2>5. CASE <<a, p>> # new /\ <<b, q>> = new
    <3>1. Tied(files, <<a, p>>, <<Ckpt, m>>) /\ q = k
      BY <1>2, <2>2, <2>5
    <3>. QED  BY <1>1, <3>1 DEF OneKind
  <2>6. CASE <<a, p>> # new /\ <<b, q>> # new
    BY <2>2, <2>6 DEF OneKind
  <2>. QED  BY <2>3, <2>4, <2>5, <2>6
<1>8. BackupsAreOriginals'
  <2>1. \A b \in Dirs, n \in Names : Backup(n, File(b, n))
    BY BackupsAre
  <2>2. ASSUME NEW b \in Dirs, NEW n \in Names PROVE Backup(n, File(b, n)')
    BY <1>6, <2>1, BackupPartial
  <2>. QED  BY <2>2, BackupsAreNext
<1>9. VariantInv'
  <2>. SUFFICES ASSUME NEW s \in Shards, Has(files', <<Variant, Shard(s)>>)
                PROVE  Has(files, <<Variant, Shard(s)>>) /\ File(Variant, Shard(s))' = File(Variant, Shard(s))
    BY VariantKept
  <2>1. <<Variant, Shard(s)>> \in Entries /\ Shard(s) \in Names
    BY NamesAre
  <2>2. <<Variant, Shard(s)>> # e /\ <<Variant, Shard(s)>> # new
    BY <1>1, <1>2
  <2>. QED  BY <1>1, <1>4, <1>6, <2>1, <2>2
<1>10. ~Has(files', <<Ckpt, m>>)
  BY <1>2, <1>4
<1>11. ASSUME NEW n \in Names \ {m, k} PROVE File(Ckpt, n)' = File(Ckpt, n)
  BY <1>1, <1>2, <1>6
<1>. QED  BY <1>4, <1>7, <1>8, <1>9, <1>10, <1>11

\* A file downloaded.
LEMMA ReplaceFrame ==
  ASSUME FileSystem(files), OneKind, BackupsAreOriginals, VariantInv,
         NEW n \in Repo, NEW c \in Contents, files' = Replaced(files, <<Ckpt, n>>, c),
         UNCHANGED <<links, release, byHand>>
  PROVE  FileSystem(files') /\ OneKind' /\ BackupsAreOriginals' /\ VariantInv'
<1>1. n \in Names /\ Ckpt \in Dirs /\ Variant \in Dirs /\ Ckpt # Variant
  BY NamesAre
<1>2. PICK e \in Entries : e = <<Ckpt, n>>
  BY <1>1 DEF Entries
<1>3. /\ FileSystem(files')
      /\ \A x \in Entries : Has(files', x) <=> x = e \/ Has(files, x)
      /\ \A x \in Entries : Val(files', x) = IF x = e THEN c ELSE Val(files, x)
      /\ \A x, y \in Entries :
           Tied(files', x, y) <=> (x = e /\ y = e) \/ (x # e /\ y # e /\ Tied(files, x, y))
  BY <1>2, ReplacedFacts
<1>4. ASSUME NEW b \in Dirs, NEW m \in Names
      PROVE  <<b, m>> \in Entries /\ File(b, m) = Val(files, <<b, m>>) /\ File(b, m)' = Val(files', <<b, m>>)
  BY FileVal, FileValNext DEF Entries
<1>5. OneKind'
  <2>. SUFFICES ASSUME NEW a \in Dirs, NEW b \in Dirs, NEW p \in Names, NEW q \in Names,
                       Tied(files', <<a, p>>, <<b, q>>)
                PROVE  p = q \/ (p \in ShardKind /\ q \in ShardKind)
    BY DEF OneKind, ShardKind
  <2>1. <<a, p>> \in Entries /\ <<b, q>> \in Entries
    BY DEF Entries
  <2>. QED  BY <1>2, <1>3, <2>1 DEF OneKind
<1>6. BackupsAreOriginals'
  <2>1. \A b \in Dirs, m \in Names : Backup(m, File(b, m))
    BY BackupsAre
  <2>2. Backup(n, c)
    BY NamesAre DEF Backup
  <2>3. ASSUME NEW b \in Dirs, NEW m \in Names PROVE Backup(m, File(b, m)')
    <3>1. CASE <<b, m>> = e
      BY <1>2, <1>3, <1>4, <2>2, <3>1
    <3>2. CASE <<b, m>> # e
      <4>1. <<b, m>> \in Entries /\ File(b, m) = Val(files, <<b, m>>) /\ File(b, m)' = Val(files', <<b, m>>)
        BY <1>4
      <4>2. Val(files', <<b, m>>) = Val(files, <<b, m>>)
        BY <1>3, <3>2, <4>1
      <4>3. File(b, m)' = File(b, m)
        BY <4>1, <4>2
      <4>. QED  BY <2>1, <4>3
    <3>. QED  BY <3>1, <3>2
  <2>. QED  BY <2>3, BackupsAreNext
<1>7. VariantInv'
  <2>. SUFFICES ASSUME NEW s \in Shards, Has(files', <<Variant, Shard(s)>>)
                PROVE  Has(files, <<Variant, Shard(s)>>) /\ File(Variant, Shard(s))' = File(Variant, Shard(s))
    BY VariantKept
  <2>1. <<Variant, Shard(s)>> \in Entries /\ Shard(s) \in Names
    BY NamesAre
  <2>2. <<Variant, Shard(s)>> # e
    BY <1>1, <1>2
  <2>. QED  BY <1>1, <1>3, <1>4, <2>1, <2>2
<1>. QED  BY <1>3, <1>5, <1>6, <1>7

\* Files removed.
LEMMA RemoveFrame ==
  ASSUME FileSystem(files), OneKind, BackupsAreOriginals, VariantInv,
         NEW es, files' = Without(files, es),
         UNCHANGED <<links, release, byHand>>
  PROVE  /\ FileSystem(files') /\ OneKind' /\ BackupsAreOriginals' /\ VariantInv'
         /\ \A x \in Entries : Has(files', x) <=> x \notin es /\ Has(files, x)
         /\ \A b \in Dirs, n \in Names : <<b, n>> \notin es => File(b, n)' = File(b, n)
         /\ \A x \in Entries : x \in es \/ Single(files, x) => Single(files', x)
<1>1. /\ FileSystem(files')
      /\ \A x \in Entries : Has(files', x) <=> x \notin es /\ Has(files, x)
      /\ \A x \in Entries : x \notin es => Val(files', x) = Val(files, x)
      /\ \A x, y \in Entries : Tied(files', x, y) <=> x \notin es /\ y \notin es /\ Tied(files, x, y)
  BY WithoutFacts
<1>2. ASSUME NEW b \in Dirs, NEW m \in Names
      PROVE  <<b, m>> \in Entries /\ File(b, m) = Val(files, <<b, m>>) /\ File(b, m)' = Val(files', <<b, m>>)
  BY FileVal, FileValNext DEF Entries
<1>3. \A b \in Dirs, n \in Names : <<b, n>> \notin es => File(b, n)' = File(b, n)
  BY <1>1, <1>2
<1>4. OneKind'
  <2>. SUFFICES ASSUME NEW a \in Dirs, NEW b \in Dirs, NEW p \in Names, NEW q \in Names,
                       Tied(files', <<a, p>>, <<b, q>>)
                PROVE  p = q \/ (p \in ShardKind /\ q \in ShardKind)
    BY DEF OneKind, ShardKind
  <2>1. <<a, p>> \in Entries /\ <<b, q>> \in Entries
    BY DEF Entries
  <2>. QED  BY <1>1, <2>1 DEF OneKind
<1>5. BackupsAreOriginals'
  <2>1. \A b \in Dirs, m \in Names : Backup(m, File(b, m))
    BY BackupsAre
  <2>2. ASSUME NEW b \in Dirs, NEW m \in Names PROVE Backup(m, File(b, m)')
    <3>1. CASE <<b, m>> \in es
      <4>1. File(b, m)' = Partial
        BY <1>1, <1>2, <3>1, NoFile
      <4>. QED  BY <4>1, BackupPartial
    <3>2. CASE <<b, m>> \notin es
      BY <1>3, <2>1, <3>2
    <3>. QED  BY <3>1, <3>2
  <2>. QED  BY <2>2, BackupsAreNext
<1>6. VariantInv'
  <2>. SUFFICES ASSUME NEW s \in Shards, Has(files', <<Variant, Shard(s)>>)
                PROVE  Has(files, <<Variant, Shard(s)>>) /\ File(Variant, Shard(s))' = File(Variant, Shard(s))
    BY VariantKept
  <2>1. <<Variant, Shard(s)>> \in Entries /\ Shard(s) \in Names /\ Variant \in Dirs
    BY NamesAre
  <2>. QED  BY <1>1, <1>3, <2>1
<1>7. ASSUME NEW x \in Entries, x \in es \/ Single(files, x) PROVE Single(files', x)
  BY <1>1, <1>7 DEF Single
<1>. QED  BY <1>1, <1>3, <1>4, <1>5, <1>6, <1>7

----------------------------------------------------------------------------
(* Every step keeps the invariant, tool by tool.                           *)

Common == TypeInv /\ OneKind /\ BackupsAreOriginals /\ VariantInv

LEMMA OnlyTool ==
  ASSUME Common',
         tool' = "download" => DownloadInv', tool' = "head" => HeadInv',
         tool' = "fp8" => Fp8Inv', tool' = "strip" => StripInv',
         tool' = "config" => ConfigInv', tool' = "clean" => CleanInv', tool' = "mtp" => MtpInv'
  PROVE  IInv'
<1>1. /\ DownloadInv' /\ HeadInv' /\ ConfigInv' /\ CleanInv' /\ MtpInv'
  BY DEF DownloadInv, HeadInv, ConfigInv, CleanInv, MtpInv, Scripted
<1>2. Fp8Inv'
  <2>1. CASE tool' = "fp8"
    BY <2>1
  <2>2. CASE tool' # "fp8"
    BY <2>2 DEF Fp8Inv, Scripted
  <2>. QED  BY <2>1, <2>2
<1>3. StripInv'
  <2>1. CASE tool' = "strip"
    BY <2>1
  <2>2. CASE tool' # "strip"
    BY <2>2 DEF StripInv, Scripted
  <2>. QED  BY <2>1, <2>2
<1>. QED  BY <1>1, <1>2, <1>3 DEF IInv, Common

LEMMA SameFiles ==
  ASSUME IInv, UNCHANGED <<files, links, release, byHand>>
  PROVE  /\ FileSystem(files') /\ OneKind' /\ BackupsAreOriginals' /\ VariantInv'
         /\ \A d, n : File(d, n)' = File(d, n)
<1>1. \A d, n : File(d, n)' = File(d, n)
  BY FileVal, FileValNext
<1>2. BackupsAreOriginals'
  BY <1>1 DEF IInv, BackupsAreOriginals
<1>3. VariantInv'
  BY <1>1, VariantKept DEF IInv
<1>4. OneKind'
  BY DEF IInv, OneKind, ShardKind
<1>. QED  BY <1>1, <1>2, <1>3, <1>4 DEF IInv, TypeInv

LEMMA SameReleased ==
  ASSUME fetched' = fetched
  PROVE  \A ms : Released(ms)' = Released(ms)
BY DEF Released

LEMMA DownloadStep ==
  ASSUME IInv, Download
  PROVE  IInv'
<1>1. /\ tool = "download" /\ tool' = "download" /\ step = "start" /\ ~open
      /\ UNCHANGED <<links, release, byHand, alone, open, fetched, idx, mem>>
  BY DEF Download, memory, hand, IInv, DownloadInv
<1>2. CASE Stale = {}
  <2>1. files' = files /\ step' = "over"
    BY <1>2 DEF Download
  <2>2. /\ FileSystem(files') /\ OneKind' /\ BackupsAreOriginals' /\ VariantInv'
        /\ \A d, n : File(d, n)' = File(d, n)
    BY <1>1, <2>1, SameFiles
  <2>3. Common'
    BY <1>1, <2>1, <2>2 DEF Common, TypeInv, IInv
  <2>4. \A n \in Repo : File(Ckpt, n)' = Released({})'
    BY <1>1, <1>2, <2>2, SameReleased, ReleasedFacts DEF Stale, IInv
  <2>5. DownloadInv'
    BY <1>1, <2>1, <2>4 DEF DownloadInv
  <2>. QED  BY <1>1, <2>3, <2>5, OnlyTool
<1>3. CASE Stale # {}
  <2>1. PICK n \in Repo : files' = Replaced(files, <<Ckpt, n>>, Original(fetched)) /\ step' = "start"
    BY <1>1, <1>3 DEF Download, Stale
  <2>2. Original(fetched) \in Contents
    BY ReleasedFacts DEF IInv
  <2>3. FileSystem(files') /\ OneKind' /\ BackupsAreOriginals' /\ VariantInv'
    BY <1>1, <2>1, <2>2, ReplaceFrame DEF IInv, TypeInv
  <2>4. Common'
    BY <1>1, <2>1, <2>3 DEF Common, TypeInv, IInv
  <2>5. DownloadInv'
    BY <1>1, <2>1 DEF DownloadInv
  <2>. QED  BY <1>1, <2>4, <2>5, OnlyTool
<1>. QED  BY <1>2, <1>3

\* Whatever a tool stops at.
LEMMA StopKeeps ==
  ASSUME IInv, UNCHANGED <<files, links, release, tool, fetched, idx, mem, alone, byHand>>,
         step' = "stopped", open' \in BOOLEAN, ~open'
  PROVE  IInv'
<1>1. /\ FileSystem(files') /\ OneKind' /\ BackupsAreOriginals' /\ VariantInv'
      /\ \A d, n : File(d, n)' = File(d, n)
  BY SameFiles
<1>2. Common'
  BY <1>1 DEF Common, TypeInv, IInv
<1>3. DownloadInv'
  BY DEF DownloadInv
<1>4. HeadInv'
  <2>1. \A ms : Released(ms)' = Released(ms)
    BY SameReleased
  <2>2. ASSUME tool' = "head"
        PROVE  /\ \A n \in Repo \ {Shard(HeadShard), Index} : File(Ckpt, n)' = Released({})'
               /\ \A n \in {Shard(HeadShard), Index} :
                    File(Ckpt, n)' \in {Released({})', Partial, Released({"head"})'}
    BY <1>1, <2>1, <2>2 DEF IInv, HeadInv
  <2>. QED  BY <2>2 DEF HeadInv
<1>5. Fp8Inv' /\ StripInv'
  BY DEF Fp8Inv, StripInv, Scripted
<1>6. ConfigInv' /\ CleanInv' /\ MtpInv'
  BY DEF ConfigInv, CleanInv, MtpInv, Scripted
<1>. QED  BY <1>2, <1>3, <1>4, <1>5, <1>6 DEF IInv, Common

LEMMA HeadStep ==
  ASSUME IInv, QuantizeHead
  PROVE  IInv'
<1>1. tool = "head" /\ tool' = "head" /\ step # "stopped" /\ fetched' = fetched
  BY DEF QuantizeHead, HeadLoad, HeadMove, HeadSave, HeadIndex, Stop, Write
<1>2. \A ms : Released(ms)' = Released(ms)
  BY <1>1, SameReleased
<1>3. /\ Released({}) \in Contents /\ Released({"head"}) \in Contents
      /\ Released({}) # Partial /\ Released({}).marks = {} /\ Released({"head"}).marks = {"head"}
  BY ReleasedFacts DEF IInv, Marks
<1>4. With(Released({}), "head") = Released({"head"})
  BY WithReleased
<1>5. /\ Shard(HeadShard) \in Repo /\ Shard(HeadShard) \in Names /\ Shard(HeadShard) \in ShardKind
      /\ Index \in Repo /\ Index \in Names /\ Index \notin ShardKind /\ Index \notin ShardFiles
      /\ Shard(HeadShard) # Index /\ Ckpt \in Dirs
      /\ HeadBak \in ShardKind /\ HeadBak # Shard(HeadShard) /\ HeadBak \notin Repo /\ HeadBak \notin SideBaks
      /\ \A n \in Repo : n \in Names
  BY NamesAre, NameFacts
<1>6. HeadInv
  BY DEF IInv
<1>7. CASE HeadLoad
  <2>1. step = "start" /\ ~open
    BY <1>1, <1>6, <1>7 DEF HeadInv, HeadLoad
  <2>2. CASE HeadPresent
    <3>1. /\ idx' = File(Ckpt, Index) /\ mem' = With(File(Ckpt, Shard(HeadShard)), "head")
          /\ step' = "move"
          /\ UNCHANGED <<links, files, release, open, alone, byHand>>
      BY <1>7, <2>2 DEF HeadLoad, hand
    <3>2. /\ FileSystem(files') /\ OneKind' /\ BackupsAreOriginals' /\ VariantInv'
          /\ \A d, n : File(d, n)' = File(d, n)
      BY <3>1, SameFiles
    <3>3. /\ \A n \in Repo \ {Shard(HeadShard), Index} : File(Ckpt, n) = Released({})
          /\ \A n \in {Shard(HeadShard), Index} : File(Ckpt, n) \in {Released({}), Partial, Released({"head"})}
      BY <1>1, <1>6 DEF HeadInv
    <3>4. File(Ckpt, Index) = Released({}) /\ File(Ckpt, Shard(HeadShard)) = Released({})
      BY <1>3, <2>2, <3>3 DEF HeadPresent, Readable
    <3>5. idx' = Released({}) /\ mem' = Released({"head"})
      BY <1>4, <3>1, <3>4
    <3>6. Common'
      BY <1>1, <1>3, <3>1, <3>2, <3>5 DEF Common, TypeInv, IInv
    <3>7. HeadInv'
      BY <1>2, <2>1, <3>1, <3>2, <3>3, <3>4, <3>5 DEF HeadInv
    <3>. QED  BY <1>1, <3>6, <3>7, OnlyTool
  <2>3. CASE ~HeadPresent
    <3>1. Stop
      BY <1>7, <2>3 DEF HeadLoad
    <3>2. open' = open /\ open \in BOOLEAN
      BY <3>1 DEF Stop, IInv, TypeInv
    <3>. QED  BY <2>1, <3>1, <3>2, StopKeeps DEF Stop, memory, hand
  <2>. QED  BY <2>2, <2>3
<1>8. CASE HeadMove
  <2>1. /\ step = "move" /\ ~open /\ step' = "save"
        /\ files' = Renamed(files, <<Ckpt, Shard(HeadShard)>>, <<Ckpt, HeadBak>>)
        /\ UNCHANGED <<links, release, open, idx, mem, alone, byHand>>
    BY <1>1, <1>6, <1>8 DEF HeadInv, HeadMove, memory, hand
  <2>2. /\ File(Ckpt, Shard(HeadShard)) = Released({})
        /\ \A n \in Repo \ {Shard(HeadShard), Index} : File(Ckpt, n) = Released({})
        /\ File(Ckpt, Index) = Released({}) /\ idx = Released({}) /\ mem = Released({"head"})
    BY <1>1, <1>6, <2>1 DEF HeadInv
  <2>3. Has(files, <<Ckpt, Shard(HeadShard)>>)
    BY <1>3, <1>5, <2>2, FileFacts DEF Readable, IInv
  <2>4. Backup(HeadBak, File(Ckpt, Shard(HeadShard)))
    BY <1>3, <1>5, <2>2, NameFacts DEF Backup
  <2>5. /\ FileSystem(files') /\ OneKind' /\ BackupsAreOriginals' /\ VariantInv'
        /\ ~Has(files', <<Ckpt, Shard(HeadShard)>>)
        /\ \A n \in Names \ {Shard(HeadShard), HeadBak} : File(Ckpt, n)' = File(Ckpt, n)
    BY <1>5, <2>1, <2>3, <2>4, MoveFrame DEF IInv, TypeInv
  <2>6. Common'
    BY <1>1, <2>1, <2>5 DEF Common, TypeInv, IInv
  <2>7. /\ File(Ckpt, Shard(HeadShard))' = Partial
        /\ \A n \in Repo \ {Shard(HeadShard)} : File(Ckpt, n)' = File(Ckpt, n)
    BY <1>5, <2>5, FileValNext, NoFile
  <2>8. HeadInv'
    BY <1>1, <1>2, <1>5, <2>1, <2>2, <2>5, <2>7 DEF HeadInv, Fresh
  <2>. QED  BY <1>1, <2>6, <2>8, OnlyTool
<1>9. CASE HeadSave
  <2>1. step = "save" /\ Write(Ckpt, Shard(HeadShard), mem, "index") /\ mem \in Contents
    BY <1>9 DEF HeadSave, IInv, TypeInv
  <2>2. /\ Fresh(<<Ckpt, Shard(HeadShard)>>)
        /\ \A n \in Repo \ {Shard(HeadShard), Index} : File(Ckpt, n) = Released({})
        /\ File(Ckpt, Index) = Released({}) /\ idx = Released({}) /\ mem = Released({"head"})
    BY <1>1, <1>6, <2>1 DEF HeadInv
  <2>3. Backup(Shard(HeadShard), mem)
    BY <1>5, NamesAre DEF Backup
  <2>4. /\ TypeInv' /\ OneKind' /\ BackupsAreOriginals'
        /\ \A b \in Dirs, m \in Names : m # Shard(HeadShard) => File(b, m)' = File(b, m)
        /\ \A b \in Dirs : Shard(HeadShard) \in ShardKind /\ b # Ckpt =>
             File(b, Shard(HeadShard))' = File(b, Shard(HeadShard))
        /\ File(Ckpt, Shard(HeadShard))' = IF open THEN mem ELSE Partial
        /\ \A x \in Entries : Has(files', x) <=> x = <<Ckpt, Shard(HeadShard)>> \/ Has(files, x)
        /\ \A x \in Entries : Single(files, x) => Single(files', x)
        /\ ~Has(files, <<Ckpt, Shard(HeadShard)>>) => Single(files', <<Ckpt, Shard(HeadShard)>>)
        /\ open' = ~open /\ step' = IF open THEN "index" ELSE step
        /\ UNCHANGED <<links, release, tool, fetched, idx, mem, todo, crashes, alone, byHand>>
    BY <1>1, <1>5, <2>1, <2>2, <2>3, WriteFrame DEF IInv, Fresh
  <2>5. VariantInv'
    BY <1>5, <2>4, WriteKeepsVariant DEF IInv
  <2>6. \A n \in Repo \ {Shard(HeadShard)} : File(Ckpt, n)' = File(Ckpt, n)
    BY <1>5, <2>4
  <2>7. <<Ckpt, Shard(HeadShard)>> \in Entries
    BY NamesAre, <1>5
  <2>8. HeadInv'
    <3>1. CASE open
      <4>1. ~open' /\ step' = "index" /\ File(Ckpt, Shard(HeadShard))' = Released({"head"})
        BY <2>2, <2>4, <3>1
      <4>. QED  BY <1>1, <1>2, <1>5, <2>2, <2>4, <2>6, <4>1 DEF HeadInv, InPlace
    <3>2. CASE ~open
      <4>1. open' /\ step' = "save" /\ File(Ckpt, Shard(HeadShard))' = Partial
        BY <2>1, <2>4, <3>2
      <4>2. Fresh(<<Ckpt, Shard(HeadShard)>>)'
        BY <2>2, <2>4, <2>7, <3>2, <4>1 DEF Fresh
      <4>. QED  BY <1>1, <1>2, <1>5, <2>2, <2>4, <2>6, <4>1, <4>2 DEF HeadInv
    <3>. QED  BY <3>1, <3>2
  <2>. QED  BY <1>1, <2>4, <2>5, <2>8, OnlyTool DEF Common
<1>10. CASE HeadIndex
  <2>1. step = "index" /\ Write(Ckpt, Index, With(idx, "head"), "over")
    BY <1>10 DEF HeadIndex
  <2>2. /\ File(Ckpt, Shard(HeadShard)) = Released({"head"}) /\ idx = Released({})
        /\ InPlace(Ckpt, Index, Released({}))
        /\ \A n \in Repo \ {Shard(HeadShard), Index} : File(Ckpt, n) = Released({})
    BY <1>1, <1>6, <2>1 DEF HeadInv
  <2>3. Backup(Index, With(idx, "head"))
    BY <1>5, NamesAre DEF Backup
  <2>4. /\ TypeInv' /\ OneKind' /\ BackupsAreOriginals'
        /\ \A b \in Dirs, m \in Names : m # Index => File(b, m)' = File(b, m)
        /\ \A b \in Dirs : Index \in ShardKind /\ b # Ckpt => File(b, Index)' = File(b, Index)
        /\ File(Ckpt, Index)' = IF open THEN With(idx, "head") ELSE Partial
        /\ \A x \in Entries : Has(files', x) <=> x = <<Ckpt, Index>> \/ Has(files, x)
        /\ open' = ~open /\ step' = IF open THEN "over" ELSE step
        /\ UNCHANGED <<links, release, tool, fetched, idx, mem, todo, crashes, alone, byHand>>
    BY <1>1, <1>3, <1>4, <1>5, <2>1, <2>2, <2>3, WriteFrame DEF IInv, InPlace
  <2>5. VariantInv'
    BY <1>5, <2>4, WriteKeepsVariant DEF IInv
  <2>6. \A n \in Repo \ {Index} : File(Ckpt, n)' = File(Ckpt, n)
    BY <1>5, <2>4
  <2>7. <<Ckpt, Index>> \in Entries
    BY NamesAre, <1>5
  <2>8. HeadInv'
    <3>1. CASE open
      <4>1. ~open' /\ step' = "over" /\ File(Ckpt, Index)' = Released({"head"})
        BY <1>4, <2>2, <2>4, <3>1
      <4>. QED  BY <1>1, <1>2, <1>5, <2>2, <2>4, <2>6, <4>1 DEF HeadInv
    <3>2. CASE ~open
      <4>1. open' /\ step' = "index" /\ File(Ckpt, Index)' = Partial /\ Has(files', <<Ckpt, Index>>)
        BY <2>1, <2>4, <2>7, <3>2
      <4>. QED  BY <1>1, <1>2, <1>5, <2>2, <2>4, <2>6, <4>1 DEF HeadInv, InPlace
    <3>. QED  BY <3>1, <3>2
  <2>. QED  BY <1>1, <2>4, <2>5, <2>8, OnlyTool DEF Common
<1>. QED  BY <1>7, <1>8, <1>9, <1>10 DEF QuantizeHead

LEMMA SideFacts ==
  ASSUME TypeInv, NEW s \in Shards
  PROVE  /\ HeadMark(s) \in SUBSET Marks /\ "fp8" \notin HeadMark(s)
         /\ Released(HeadMark(s)) \in Contents /\ Released(HeadMark(s)) # Partial
         /\ Released(HeadMark(s)).marks = HeadMark(s)
         /\ Quantized(Released(HeadMark(s))) = Released(HeadMark(s) \cup {"fp8"})
<1>1. HeadMark(s) \in SUBSET Marks /\ "fp8" \notin HeadMark(s)
  BY DEF HeadMark, Marks
<1>2. /\ Released(HeadMark(s)) \in Contents /\ Released(HeadMark(s)) # Partial
      /\ Released(HeadMark(s)).marks = HeadMark(s)
  BY <1>1, ReleasedFacts
<1>3. Quantized(Released(HeadMark(s))) = With(Released(HeadMark(s)), "fp8")
  BY <1>1, <1>2 DEF Quantized
<1>. QED  BY <1>1, <1>2, <1>3, WithReleased

LEMMA Fp8Step ==
  ASSUME IInv, Fp8
  PROVE  IInv'
<1>1. tool = "fp8" /\ tool' = "fp8" /\ step # "stopped" /\ fetched' = fetched /\ alone' = alone
  BY DEF Fp8, SideStart, SideLoad, SideMove, SideSave, SideNext, SideIndex, Stop, Write, hand
<1>2. \A ms : Released(ms)' = Released(ms)
  BY <1>1, SameReleased
<1>3. /\ Released({"head"}) \in Contents /\ Released({"head"}) # Partial
      /\ With(Released({"head"}), "fp8") = Released({"head", "fp8"})
  <2>1. With(Released({"head"}), "fp8") = Released({"head"} \cup {"fp8"})
    BY WithReleased
  <2>2. {"head"} \cup {"fp8"} = {"head", "fp8"}
    OBVIOUS
  <2>. QED  BY <2>1, <2>2, ReleasedFacts DEF IInv, Marks
<1>4. /\ \A s \in Shards : /\ Shard(s) \in Repo /\ Shard(s) \in Names /\ Shard(s) \in ShardKind
                           /\ Shard(s) \notin {Extra, Config, Index}
                           /\ <<Ckpt, Shard(s)>> \in Entries
      /\ \A s, t \in Shards : Shard(s) = Shard(t) => s = t
      /\ {Extra, Config, Index} \in SUBSET Names /\ <<Ckpt, Index>> \in Entries
      /\ Index \notin ShardKind /\ Index \notin ShardFiles /\ Index # Extra /\ Index # Config
      /\ Index \in Names /\ Ckpt \in Dirs
  BY NamesAre, NameFacts
<1>5. /\ Fp8Inv /\ TypeInv
      /\ step # "start" => todo \in SUBSET ToSet(SideShards)
      /\ step = "start" => ~open
      /\ todo \in SUBSET ToSet(SideShards) /\ todo # {} =>
           Current \in todo /\ Current \in Shards /\ Current \in ToSet(SideShards)
  BY <1>1, CurrentIs DEF IInv, Fp8Inv, Fp8, SideStart, SideLoad, SideMove, SideSave, SideNext, SideIndex
<1>6. \A s \in Shards : HeadMark(s)' = HeadMark(s)
  BY DEF HeadMark
<1>7. CASE SideStart
  <2>1. step = "start" /\ ~open
    BY <1>5, <1>7 DEF SideStart
  <2>2. CASE Readable(Ckpt, Index)
    <3>1. /\ idx' = File(Ckpt, Index) /\ todo' = ToSet(SideShards) /\ step' = "shard"
          /\ UNCHANGED <<links, files, release, open, mem, byHand>>
      BY <1>7, <2>2 DEF SideStart, hand
    <3>2. /\ FileSystem(files') /\ OneKind' /\ BackupsAreOriginals' /\ VariantInv'
          /\ \A d, n : File(d, n)' = File(d, n)
      BY <3>1, SameFiles
    <3>3. File(Ckpt, Index) \in Contents
      BY <1>4, <1>5, FileFacts
    <3>4. Common'
      BY <1>1, <3>1, <3>2, <3>3 DEF Common, TypeInv, IInv
    <3>5. \A s \in Shards : ~Through(s)'
      BY <3>1 DEF Through
    <3>6. ASSUME ~alone
          PROVE  /\ \A n \in {Extra, Config} : File(Ckpt, n) = Released({})
                 /\ \A s \in Shards : File(Ckpt, Shard(s)) = Released(HeadMark(s))
                 /\ File(Ckpt, Index) = Released({"head"})
      BY <1>1, <1>5, <2>1, <3>6 DEF Fp8Inv, Scripted
    <3>7. Scripted("fp8")' =>
            /\ \A n \in {Extra, Config} : File(Ckpt, n)' = Released({})'
            /\ idx' = Released({"head"})' /\ File(Ckpt, Index)' = Released({"head"})'
            /\ \A s \in Shards : File(Ckpt, Shard(s))' = Released(HeadMark(s))'
      BY <1>1, <1>2, <1>6, <3>1, <3>2, <3>6 DEF Scripted
    <3>8. Fp8Inv'
      BY <1>1, <2>1, <3>1, <3>5, <3>7 DEF Fp8Inv
    <3>. QED  BY <1>1, <3>4, <3>8, OnlyTool
  <2>3. CASE ~Readable(Ckpt, Index)
    <3>1. Stop
      BY <1>7, <2>3 DEF SideStart
    <3>2. open' = open /\ open \in BOOLEAN
      BY <3>1 DEF Stop, IInv, TypeInv
    <3>. QED  BY <2>1, <3>1, <3>2, StopKeeps DEF Stop, memory, hand
  <2>. QED  BY <2>2, <2>3
<1>8. CASE SideLoad
  <2>1. step = "shard" /\ todo # {} /\ ~open
    BY <1>1, <1>5, <1>8 DEF SideLoad, Fp8Inv
  <2>2. Current \in todo /\ Current \in Shards /\ Current \in ToSet(SideShards)
    BY <1>5, <2>1
  <2>3. CASE Readable(Ckpt, Shard(Current))
    <3>1. /\ mem' = Quantized(File(Ckpt, Shard(Current))) /\ step' = "move"
          /\ UNCHANGED <<links, files, release, open, idx, todo, byHand>>
      BY <1>8, <2>3 DEF SideLoad, hand
    <3>2. /\ FileSystem(files') /\ OneKind' /\ BackupsAreOriginals' /\ VariantInv'
          /\ \A d, n : File(d, n)' = File(d, n)
      BY <3>1, SameFiles
    <3>3. File(Ckpt, Shard(Current)) \in Contents /\ Has(files, <<Ckpt, Shard(Current)>>)
      BY <1>4, <1>5, <2>2, <2>3, FileFacts
    <3>4. mem' \in Contents
      BY <3>1, <3>3, WithFacts DEF Quantized, Marks
    <3>5. Common'
      BY <1>1, <3>1, <3>2, <3>4 DEF Common, TypeInv, IInv
    <3>6. Current' = Current
      BY <3>1 DEF Current
    <3>7. \A s \in Shards : Through(s)' = Through(s) /\ ~Through(Current)
      BY <2>1, <2>2, <3>1 DEF Through
    <3>8. ASSUME ~alone
          PROVE  /\ \A n \in {Extra, Config} : File(Ckpt, n) = Released({})
                 /\ \A s \in Shards : File(Ckpt, Shard(s)) =
                      Released(IF Through(s) THEN HeadMark(s) \cup {"fp8"} ELSE HeadMark(s))
                 /\ File(Ckpt, Index) = Released({"head"}) /\ idx = Released({"head"})
      BY <1>1, <1>5, <2>1, <3>8 DEF Fp8Inv, Scripted
    <3>9. ASSUME ~alone
          PROVE  mem' = Released(HeadMark(Current) \cup {"fp8"})
      BY <1>5, <2>2, <3>1, <3>7, <3>8, <3>9, SideFacts
    <3>10. Scripted("fp8")' =>
            /\ \A n \in {Extra, Config} : File(Ckpt, n)' = Released({})'
            /\ idx' = Released({"head"})' /\ File(Ckpt, Index)' = Released({"head"})'
            /\ mem' = Released(HeadMark(Current) \cup {"fp8"})'
            /\ \A s \in Shards :
                 IF Through(s)' THEN File(Ckpt, Shard(s))' = Released(HeadMark(s) \cup {"fp8"})'
                 ELSE File(Ckpt, Shard(s))' = Released(HeadMark(s))'
      <4>1. SUFFICES ASSUME ~alone
                     PROVE  /\ \A n \in {Extra, Config} : File(Ckpt, n) = Released({})
                            /\ idx = Released({"head"}) /\ File(Ckpt, Index) = Released({"head"})
                            /\ mem' = Released(HeadMark(Current) \cup {"fp8"})
                            /\ \A s \in Shards :
                                 IF Through(s) THEN File(Ckpt, Shard(s)) = Released(HeadMark(s) \cup {"fp8"})
                                 ELSE File(Ckpt, Shard(s)) = Released(HeadMark(s))
        BY <1>1, <1>2, <1>6, <2>2, <3>1, <3>2, <3>6, <3>7 DEF Scripted
      <4>. QED  BY <3>8, <3>9, <4>1
    <3>11. Fp8Inv'
      BY <1>1, <1>5, <2>1, <3>1, <3>3, <3>6, <3>10 DEF Fp8Inv
    <3>. QED  BY <1>1, <3>5, <3>11, OnlyTool
  <2>4. CASE ~Readable(Ckpt, Shard(Current))
    <3>1. Stop
      BY <1>8, <2>4 DEF SideLoad
    <3>2. open' = open /\ open \in BOOLEAN
      BY <3>1 DEF Stop, IInv, TypeInv
    <3>. QED  BY <2>1, <3>1, <3>2, StopKeeps DEF Stop, memory, hand
  <2>. QED  BY <2>3, <2>4
<1>9. CASE SideMove
  <2>1. /\ step = "move" /\ todo # {} /\ ~open /\ step' = "save"
        /\ files' = Renamed(files, <<Ckpt, Shard(Current)>>, <<Ckpt, SideBak(Current)>>)
        /\ Has(files, <<Ckpt, Shard(Current)>>)
        /\ UNCHANGED <<links, release, open, idx, mem, todo, alone, byHand>>
    BY <1>1, <1>5, <1>9 DEF SideMove, Fp8Inv, memory, hand
  <2>2. Current \in todo /\ Current \in Shards /\ Current \in ToSet(SideShards)
    BY <1>5, <2>1
  <2>3. PICK cur : cur = Current
    OBVIOUS
  <2>4. Current' = cur
    BY <2>1, <2>3 DEF Current
  <2>5. \A s \in Shards : Through(s)' = Through(s) /\ ~Through(cur)
    BY <2>1, <2>2, <2>3 DEF Through
  <2>6. ASSUME ~alone
        PROVE  /\ \A n \in {Extra, Config} : File(Ckpt, n) = Released({})
               /\ \A s \in Shards : File(Ckpt, Shard(s)) =
                    Released(IF Through(s) THEN HeadMark(s) \cup {"fp8"} ELSE HeadMark(s))
               /\ File(Ckpt, Index) = Released({"head"}) /\ idx = Released({"head"})
               /\ mem = Released(HeadMark(cur) \cup {"fp8"})
    BY <1>1, <1>5, <2>1, <2>3, <2>6 DEF Fp8Inv, Scripted
  <2>7. /\ SideBak(cur) \in SideBaks /\ SideBak(cur) \in ShardKind
        /\ SideBak(cur) \notin Repo /\ SideBak(cur) # Shard(cur)
        /\ SideBak(cur) # HeadBak /\ SideBak(cur) # IndexBak /\ SideBak(cur) # ConfigBak
    <3>1. SideBak(cur) \in SideBaks
      BY <2>2, <2>3 DEF SideBaks
    <3>. QED  BY <1>4, <2>2, <2>3, <3>1, NamesAre, NameFacts
  <2>8. Backup(SideBak(cur), File(Ckpt, Shard(cur)))
    <3>1. CASE alone
      BY <1>1, <1>5, <2>7, <3>1 DEF TypeInv, Backup
    <3>2. CASE ~alone
      <4>1. File(Ckpt, Shard(cur)) = Released(HeadMark(cur))
        BY <2>2, <2>3, <2>5, <2>6, <3>2
      <4>. QED  BY <1>5, <2>2, <2>3, <2>7, <4>1, SideFacts DEF Backup
    <3>. QED  BY <3>1, <3>2
  <2>9. /\ FileSystem(files') /\ OneKind' /\ BackupsAreOriginals' /\ VariantInv'
        /\ ~Has(files', <<Ckpt, Shard(cur)>>)
        /\ \A n \in Names \ {Shard(cur), SideBak(cur)} : File(Ckpt, n)' = File(Ckpt, n)
    BY <1>4, <1>5, <2>1, <2>2, <2>3, <2>7, <2>8, MoveFrame DEF IInv, TypeInv
  <2>10. Common'
    BY <1>1, <2>1, <2>9 DEF Common, TypeInv, IInv
  <2>11. /\ \A n \in {Extra, Config, Index} : File(Ckpt, n)' = File(Ckpt, n)
         /\ \A s \in Shards \ {cur} : File(Ckpt, Shard(s))' = File(Ckpt, Shard(s))
    <3>1. \A n \in Repo \ {Shard(cur)} : File(Ckpt, n)' = File(Ckpt, n)
      BY <2>7, <2>9, NamesAre
    <3>. QED  BY <1>4, <2>2, <2>3, <3>1, NameFacts
  <2>12. Scripted("fp8")' =>
           /\ \A n \in {Extra, Config} : File(Ckpt, n)' = Released({})'
           /\ idx' = Released({"head"})' /\ File(Ckpt, Index)' = Released({"head"})'
           /\ mem' = Released(HeadMark(Current) \cup {"fp8"})'
           /\ \A s \in Shards :
                IF Through(s)' THEN File(Ckpt, Shard(s))' = Released(HeadMark(s) \cup {"fp8"})'
                ELSE s # Current' => File(Ckpt, Shard(s))' = Released(HeadMark(s))'
    <3>1. SUFFICES ASSUME ~alone
                   PROVE  /\ \A n \in {Extra, Config} : File(Ckpt, n)' = Released({})
                          /\ idx = Released({"head"}) /\ File(Ckpt, Index)' = Released({"head"})
                          /\ mem = Released(HeadMark(cur) \cup {"fp8"})
                          /\ \A s \in Shards :
                               IF Through(s) THEN File(Ckpt, Shard(s))' = Released(HeadMark(s) \cup {"fp8"})
                               ELSE s # cur => File(Ckpt, Shard(s))' = Released(HeadMark(s))
      BY <1>1, <1>2, <1>6, <2>1, <2>2, <2>3, <2>4, <2>5 DEF Scripted
    <3>. QED  BY <2>5, <2>6, <2>11, <3>1
  <2>13. Fresh(<<Ckpt, Shard(Current)>>)'
    BY <2>1, <2>4, <2>9 DEF Fresh
  <2>14. Fp8Inv'
    BY <1>1, <1>5, <2>1, <2>12, <2>13 DEF Fp8Inv
  <2>. QED  BY <1>1, <2>10, <2>14, OnlyTool
<1>10. CASE SideSave
  <2>1. step = "save" /\ Write(Ckpt, Shard(Current), mem, "saved") /\ mem \in Contents
    BY <1>10 DEF SideSave, IInv, TypeInv
  <2>2. todo # {} /\ Fresh(<<Ckpt, Shard(Current)>>)
    BY <1>1, <1>5, <2>1 DEF Fp8Inv
  <2>3. PICK cur : cur = Current
    OBVIOUS
  <2>4. cur \in todo /\ cur \in Shards /\ cur \in ToSet(SideShards)
    BY <1>5, <2>1, <2>2, <2>3
  <2>5. ASSUME ~alone
        PROVE  /\ \A n \in {Extra, Config} : File(Ckpt, n) = Released({})
               /\ \A s \in Shards \ {cur} : File(Ckpt, Shard(s)) =
                    Released(IF Through(s) THEN HeadMark(s) \cup {"fp8"} ELSE HeadMark(s))
               /\ File(Ckpt, Index) = Released({"head"}) /\ idx = Released({"head"})
               /\ mem = Released(HeadMark(cur) \cup {"fp8"})
    BY <1>1, <1>5, <2>1, <2>3, <2>5 DEF Fp8Inv, Scripted
  <2>6. Backup(Shard(cur), mem)
    BY <1>4, <2>4, NamesAre DEF Backup
  <2>7. /\ TypeInv' /\ OneKind' /\ BackupsAreOriginals'
        /\ \A b \in Dirs, m \in Names : m # Shard(cur) => File(b, m)' = File(b, m)
        /\ \A b \in Dirs : Shard(cur) \in ShardKind /\ b # Ckpt =>
             File(b, Shard(cur))' = File(b, Shard(cur))
        /\ File(Ckpt, Shard(cur))' = IF open THEN mem ELSE Partial
        /\ \A x \in Entries : Has(files', x) <=> x = <<Ckpt, Shard(cur)>> \/ Has(files, x)
        /\ \A x \in Entries : Single(files, x) => Single(files', x)
        /\ ~Has(files, <<Ckpt, Shard(cur)>>) => Single(files', <<Ckpt, Shard(cur)>>)
        /\ open' = ~open /\ step' = IF open THEN "saved" ELSE step
        /\ UNCHANGED <<links, release, tool, fetched, idx, mem, todo, crashes, alone, byHand>>
    BY <1>1, <1>4, <2>1, <2>2, <2>3, <2>4, <2>6, WriteFrame DEF IInv, Fresh
  <2>8. VariantInv'
    BY <1>4, <2>4, <2>7, WriteKeepsVariant DEF IInv
  <2>9. Current' = cur
    BY <2>3, <2>7 DEF Current
  <2>10. /\ \A n \in {Extra, Config, Index} : File(Ckpt, n)' = File(Ckpt, n)
         /\ \A s \in Shards \ {cur} : File(Ckpt, Shard(s))' = File(Ckpt, Shard(s))
    BY <1>4, <2>4, <2>7
  <2>11. /\ \A s \in Shards \ {cur} : Through(s)' = Through(s)
         /\ Through(cur)' = (step' = "saved")
    BY <2>1, <2>3, <2>4, <2>7, <2>9 DEF Through
  <2>12. <<Ckpt, Shard(cur)>> \in Entries
    BY <1>4, <2>4
  <2>13. Scripted("fp8")' =>
           /\ \A n \in {Extra, Config} : File(Ckpt, n)' = Released({})'
           /\ idx' = Released({"head"})' /\ File(Ckpt, Index)' = Released({"head"})'
           /\ mem' = Released(HeadMark(Current) \cup {"fp8"})'
           /\ \A s \in Shards \ {cur} :
                IF Through(s)' THEN File(Ckpt, Shard(s))' = Released(HeadMark(s) \cup {"fp8"})'
                ELSE File(Ckpt, Shard(s))' = Released(HeadMark(s))'
    <3>1. SUFFICES ASSUME ~alone
                   PROVE  /\ \A n \in {Extra, Config} : File(Ckpt, n)' = Released({})
                          /\ idx = Released({"head"}) /\ File(Ckpt, Index)' = Released({"head"})
                          /\ mem = Released(HeadMark(cur) \cup {"fp8"})
                          /\ \A s \in Shards \ {cur} :
                               IF Through(s) THEN File(Ckpt, Shard(s))' = Released(HeadMark(s) \cup {"fp8"})
                               ELSE File(Ckpt, Shard(s))' = Released(HeadMark(s))
      BY <1>1, <1>2, <1>6, <2>4, <2>7, <2>9, <2>11 DEF Scripted
    <3>. QED  BY <2>5, <2>10, <3>1
  <2>14. Fp8Inv'
    <3>1. CASE open
      <4>1. ~open' /\ step' = "saved" /\ Through(cur)'
        BY <2>7, <2>11, <3>1
      <4>2. Scripted("fp8")' => File(Ckpt, Shard(cur))' = Released(HeadMark(cur) \cup {"fp8"})'
        BY <1>2, <1>6, <2>4, <2>5, <2>7, <3>1 DEF Scripted
      <4>. QED  BY <1>1, <1>5, <2>1, <2>2, <2>7, <2>13, <4>1, <4>2 DEF Fp8Inv
    <3>2. CASE ~open
      <4>1. open' /\ step' = "save" /\ ~Through(cur)'
        BY <2>1, <2>7, <2>11, <3>2
      <4>2. Fresh(<<Ckpt, Shard(Current)>>)'
        BY <2>2, <2>3, <2>7, <2>9, <2>12, <3>2, <4>1 DEF Fresh
      <4>. QED  BY <1>1, <1>5, <2>1, <2>2, <2>7, <2>9, <2>13, <4>1, <4>2 DEF Fp8Inv
    <3>. QED  BY <3>1, <3>2
  <2>. QED  BY <1>1, <2>7, <2>8, <2>14, OnlyTool DEF Common
<1>11. CASE SideNext
  <2>1. /\ step = "saved" /\ todo # {} /\ ~open /\ todo' = todo \ {Current} /\ step' = "shard"
        /\ UNCHANGED <<links, files, release, open, idx, mem, byHand>>
    BY <1>1, <1>5, <1>11 DEF SideNext, Fp8Inv, hand
  <2>2. Current \in todo /\ Current \in Shards /\ Current \in ToSet(SideShards)
    BY <1>5, <2>1
  <2>3. /\ FileSystem(files') /\ OneKind' /\ BackupsAreOriginals' /\ VariantInv'
        /\ \A d, n : File(d, n)' = File(d, n)
    BY <2>1, SameFiles
  <2>4. Common'
    BY <1>1, <2>1, <2>3 DEF Common, TypeInv, IInv
  <2>5. \A s \in Shards : Through(s)' = Through(s)
    BY <2>1, <2>2 DEF Through
  <2>6. ASSUME ~alone
        PROVE  /\ \A n \in {Extra, Config} : File(Ckpt, n) = Released({})
               /\ \A s \in Shards : File(Ckpt, Shard(s)) =
                    Released(IF Through(s) THEN HeadMark(s) \cup {"fp8"} ELSE HeadMark(s))
               /\ File(Ckpt, Index) = Released({"head"}) /\ idx = Released({"head"})
    BY <1>1, <1>5, <2>1, <2>6 DEF Fp8Inv, Scripted
  <2>7. Scripted("fp8")' =>
           /\ \A n \in {Extra, Config} : File(Ckpt, n)' = Released({})'
           /\ idx' = Released({"head"})' /\ File(Ckpt, Index)' = Released({"head"})'
           /\ \A s \in Shards :
                IF Through(s)' THEN File(Ckpt, Shard(s))' = Released(HeadMark(s) \cup {"fp8"})'
                ELSE File(Ckpt, Shard(s))' = Released(HeadMark(s))'
    <3>1. SUFFICES ASSUME ~alone
                   PROVE  /\ \A n \in {Extra, Config} : File(Ckpt, n) = Released({})
                          /\ idx = Released({"head"}) /\ File(Ckpt, Index) = Released({"head"})
                          /\ \A s \in Shards :
                               IF Through(s) THEN File(Ckpt, Shard(s)) = Released(HeadMark(s) \cup {"fp8"})
                               ELSE File(Ckpt, Shard(s)) = Released(HeadMark(s))
      BY <1>1, <1>2, <1>6, <2>1, <2>3, <2>5 DEF Scripted
    <3>. QED  BY <2>6, <3>1
  <2>8. Fp8Inv'
    BY <1>1, <1>5, <2>1, <2>7 DEF Fp8Inv
  <2>. QED  BY <1>1, <2>4, <2>8, OnlyTool
<1>12. CASE SideIndex
  <2>1. step = "shard" /\ todo = {} /\ Write(Ckpt, Index, With(idx, "fp8"), "over")
    BY <1>12 DEF SideIndex
  <2>2. (open => Has(files, <<Ckpt, Index>>)) /\ With(idx, "fp8") \in Contents
    BY <1>1, <1>5, <2>1, WithFacts DEF Fp8Inv, TypeInv, Marks
  <2>3. Backup(Index, With(idx, "fp8"))
    BY NamesAre, NameFacts DEF Backup
  <2>4. /\ TypeInv' /\ OneKind' /\ BackupsAreOriginals'
        /\ \A b \in Dirs, m \in Names : m # Index => File(b, m)' = File(b, m)
        /\ \A b \in Dirs : Index \in ShardKind /\ b # Ckpt => File(b, Index)' = File(b, Index)
        /\ File(Ckpt, Index)' = IF open THEN With(idx, "fp8") ELSE Partial
        /\ \A x \in Entries : Has(files', x) <=> x = <<Ckpt, Index>> \/ Has(files, x)
        /\ open' = ~open /\ step' = IF open THEN "over" ELSE step
        /\ UNCHANGED <<links, release, tool, fetched, idx, mem, todo, crashes, alone, byHand>>
    BY <1>1, <1>4, <2>1, <2>2, <2>3, WriteFrame DEF IInv
  <2>5. VariantInv'
    BY <1>4, <2>4, WriteKeepsVariant DEF IInv
  <2>6. /\ \A n \in {Extra, Config} : File(Ckpt, n)' = File(Ckpt, n)
        /\ \A s \in Shards : File(Ckpt, Shard(s))' = File(Ckpt, Shard(s))
    BY <1>4, <2>4
  <2>7. \A s \in Shards : Through(s)' = Through(s)
    BY <2>1, <2>4 DEF Through
  <2>8. ASSUME ~alone
        PROVE  /\ \A n \in {Extra, Config} : File(Ckpt, n) = Released({})
               /\ \A s \in Shards : File(Ckpt, Shard(s)) =
                    Released(IF Through(s) THEN HeadMark(s) \cup {"fp8"} ELSE HeadMark(s))
               /\ idx = Released({"head"})
    BY <1>1, <1>5, <2>1, <2>8 DEF Fp8Inv, Scripted
  <2>9. Scripted("fp8")' =>
           /\ \A n \in {Extra, Config} : File(Ckpt, n)' = Released({})'
           /\ idx' = Released({"head"})'
           /\ \A s \in Shards :
                IF Through(s)' THEN File(Ckpt, Shard(s))' = Released(HeadMark(s) \cup {"fp8"})'
                ELSE File(Ckpt, Shard(s))' = Released(HeadMark(s))'
    <3>1. SUFFICES ASSUME ~alone
                   PROVE  /\ \A n \in {Extra, Config} : File(Ckpt, n) = Released({})
                          /\ idx = Released({"head"})
                          /\ \A s \in Shards :
                               IF Through(s) THEN File(Ckpt, Shard(s)) = Released(HeadMark(s) \cup {"fp8"})
                               ELSE File(Ckpt, Shard(s)) = Released(HeadMark(s))
      BY <1>1, <1>2, <1>6, <2>4, <2>6, <2>7 DEF Scripted
    <3>. QED  BY <2>8, <3>1
  <2>10. Fp8Inv'
    <3>1. CASE open
      <4>1. ~open' /\ step' = "over"
        BY <2>4, <3>1
      <4>2. Scripted("fp8")' => File(Ckpt, Index)' = Released({"head", "fp8"})'
        BY <1>2, <1>3, <2>4, <2>8, <3>1 DEF Scripted
      <4>. QED  BY <1>1, <2>1, <2>4, <2>9, <4>1, <4>2 DEF Fp8Inv
    <3>2. CASE ~open
      <4>1. open' /\ step' = "shard" /\ Has(files', <<Ckpt, Index>>)
        BY <1>4, <2>1, <2>4, <3>2
      <4>. QED  BY <1>1, <2>1, <2>4, <2>9, <4>1 DEF Fp8Inv
    <3>. QED  BY <3>1, <3>2
  <2>. QED  BY <1>1, <2>4, <2>5, <2>10, OnlyTool DEF Common
<1>. QED  BY <1>7, <1>8, <1>9, <1>10, <1>11, <1>12 DEF Fp8

LEMMA ShardsKept ==
  ASSUME fetched' = fetched, ShardsDone,
         \A s \in Shards : File(Ckpt, Shard(s))' = File(Ckpt, Shard(s))
  PROVE  ShardsDone'
BY DEF ShardsDone, Released, HeadMark, SideMark

LEMMA NgramFacts ==
  ASSUME TypeInv
  PROVE  /\ Released({"head", "fp8"}) \in Contents /\ Released({"head", "fp8"}) # Partial
         /\ With(Released({"head", "fp8"}), "ngram") = Released({"head", "fp8", "ngram"})
         /\ Released({}).marks = {} /\ Released({}) \in Contents /\ Released({}) # Partial
         /\ With(Released({}), "gptq") = Released({"gptq"})
<1>1. With(Released({"head", "fp8"}), "ngram") = Released({"head", "fp8"} \cup {"ngram"})
  BY WithReleased
<1>2. With(Released({}), "gptq") = Released({} \cup {"gptq"})
  BY WithReleased
<1>3. {"head", "fp8"} \cup {"ngram"} = {"head", "fp8", "ngram"} /\ {} \cup {"gptq"} = {"gptq"}
  OBVIOUS
<1>4. {"head", "fp8"} \in SUBSET Marks /\ {} \in SUBSET Marks
  BY DEF Marks
<1>. QED  BY <1>1, <1>2, <1>3, <1>4, ReleasedFacts

LEMMA StripStep ==
  ASSUME IInv, Strip
  PROVE  IInv'
<1>1. tool = "strip" /\ tool' = "strip" /\ step # "stopped" /\ fetched' = fetched /\ alone' = alone
  BY DEF Strip, StripLoad, StripBackup, StripIndex, Stop, Write, hand
<1>2. \A ms : Released(ms)' = Released(ms)
  BY <1>1, SameReleased
<1>3. /\ \A s \in Shards : Shard(s) \in Names /\ Shard(s) # Index /\ Shard(s) # IndexBak
      /\ {Extra, Config} \in SUBSET Names /\ {Extra, Config} \cap {Index, IndexBak} = {}
      /\ Index \in Names /\ IndexBak \in Names /\ Ckpt \in Dirs /\ Index # IndexBak
      /\ Index \notin ShardKind /\ Index \notin ShardFiles
      /\ IndexBak \notin ShardKind /\ IndexBak \notin ShardFiles
      /\ <<Ckpt, Index>> \in Entries /\ <<Ckpt, IndexBak>> \in Entries
  BY NamesAre, NameFacts DEF Entries
<1>4. StripInv /\ TypeInv
  BY DEF IInv
<1>5. ASSUME ~alone
      PROVE  /\ ShardsDone /\ \A n \in {Extra, Config} : File(Ckpt, n) = Released({})
             /\ step \in {"backup", "index"} => idx = Released({"head", "fp8"})
             /\ step \in {"start", "backup"} => File(Ckpt, Index) = Released({"head", "fp8"})
  BY <1>1, <1>4, <1>5 DEF StripInv, Scripted
<1>6. CASE StripLoad
  <2>1. step = "start" /\ ~open
    BY <1>1, <1>4, <1>6 DEF StripLoad, StripInv
  <2>2. CASE Readable(Ckpt, Index) /\ "ngram" \notin File(Ckpt, Index).marks
    <3>1. /\ idx' = File(Ckpt, Index) /\ step' = "backup"
          /\ UNCHANGED <<links, files, release, open, mem, byHand>>
      BY <1>6, <2>2 DEF StripLoad, hand
    <3>2. /\ FileSystem(files') /\ OneKind' /\ BackupsAreOriginals' /\ VariantInv'
          /\ \A d, n : File(d, n)' = File(d, n)
      BY <3>1, SameFiles
    <3>3. File(Ckpt, Index) \in Contents
      BY <1>3, <1>4, FileFacts
    <3>4. Common'
      BY <1>1, <3>1, <3>2, <3>3 DEF Common, TypeInv, IInv
    <3>5. "ngram" \notin File(Ckpt, Index)'.marks
      BY <2>2, <3>2
    <3>6. Scripted("strip")' =>
            /\ ShardsDone' /\ \A n \in {Extra, Config} : File(Ckpt, n)' = Released({})'
            /\ idx' = Released({"head", "fp8"})' /\ File(Ckpt, Index)' = Released({"head", "fp8"})'
      BY <1>1, <1>2, <1>5, <2>1, <3>1, <3>2, ShardsKept DEF Scripted
    <3>7. StripInv'
      BY <1>1, <2>1, <3>1, <3>5, <3>6 DEF StripInv
    <3>. QED  BY <1>1, <3>4, <3>7, OnlyTool
  <2>3. CASE ~(Readable(Ckpt, Index) /\ "ngram" \notin File(Ckpt, Index).marks)
    <3>1. Stop
      BY <1>6, <2>3 DEF StripLoad
    <3>2. open' = open /\ open \in BOOLEAN
      BY <3>1 DEF Stop, IInv, TypeInv
    <3>. QED  BY <2>1, <3>1, <3>2, StopKeeps DEF Stop, memory, hand
  <2>. QED  BY <2>2, <2>3
<1>7. CASE StripBackup
  <2>1. /\ step = "backup" /\ Write(Ckpt, IndexBak, File(Ckpt, Index), "index")
        /\ File(Ckpt, Index) \in Contents
    BY <1>3, <1>4, <1>7, FileFacts DEF StripBackup, BackedUp
  <2>2. (open => Has(files, <<Ckpt, IndexBak>>)) /\ "ngram" \notin File(Ckpt, Index).marks
    BY <1>1, <1>4, <2>1 DEF StripInv
  <2>3. Backup(IndexBak, File(Ckpt, Index))
    BY <2>2, NamesAre, NameFacts DEF Backup
  <2>4. /\ TypeInv' /\ OneKind' /\ BackupsAreOriginals'
        /\ \A b \in Dirs, m \in Names : m # IndexBak => File(b, m)' = File(b, m)
        /\ \A b \in Dirs : IndexBak \in ShardKind /\ b # Ckpt => File(b, IndexBak)' = File(b, IndexBak)
        /\ \A x \in Entries : Has(files', x) <=> x = <<Ckpt, IndexBak>> \/ Has(files, x)
        /\ open' = ~open /\ step' = IF open THEN "index" ELSE step
        /\ UNCHANGED <<links, release, tool, fetched, idx, mem, todo, crashes, alone, byHand>>
    BY <1>1, <1>3, <2>1, <2>2, <2>3, WriteFrame DEF IInv
  <2>5. VariantInv'
    BY <1>3, <2>4, WriteKeepsVariant DEF IInv
  <2>6. /\ \A n \in {Extra, Config, Index} : File(Ckpt, n)' = File(Ckpt, n)
        /\ \A s \in Shards : File(Ckpt, Shard(s))' = File(Ckpt, Shard(s))
    BY <1>3, <2>4
  <2>7. Scripted("strip")' =>
          /\ ShardsDone' /\ \A n \in {Extra, Config} : File(Ckpt, n)' = Released({})'
          /\ idx' = Released({"head", "fp8"})' /\ File(Ckpt, Index)' = Released({"head", "fp8"})'
    BY <1>1, <1>2, <1>5, <2>1, <2>4, <2>6, ShardsKept DEF Scripted
  <2>8. "ngram" \notin File(Ckpt, Index)'.marks
    BY <2>2, <2>6
  <2>9. StripInv'
    <3>1. CASE open
      <4>1. ~open' /\ step' = "index"
        BY <2>4, <3>1
      <4>. QED  BY <1>1, <2>7, <4>1 DEF StripInv
    <3>2. CASE ~open
      <4>1. open' /\ step' = "backup" /\ Has(files', <<Ckpt, IndexBak>>)
        BY <1>3, <2>1, <2>4, <3>2
      <4>. QED  BY <1>1, <2>7, <2>8, <4>1 DEF StripInv
    <3>. QED  BY <3>1, <3>2
  <2>. QED  BY <1>1, <2>4, <2>5, <2>9, OnlyTool DEF Common
<1>8. CASE StripIndex
  <2>1. step = "index" /\ Write(Ckpt, Index, With(idx, "ngram"), "over")
    BY <1>8 DEF StripIndex
  <2>2. (open => Has(files, <<Ckpt, Index>>)) /\ With(idx, "ngram") \in Contents
    BY <1>1, <1>4, <2>1, WithFacts DEF StripInv, TypeInv, Marks
  <2>3. Backup(Index, With(idx, "ngram"))
    BY NamesAre, NameFacts DEF Backup
  <2>4. /\ TypeInv' /\ OneKind' /\ BackupsAreOriginals'
        /\ \A b \in Dirs, m \in Names : m # Index => File(b, m)' = File(b, m)
        /\ \A b \in Dirs : Index \in ShardKind /\ b # Ckpt => File(b, Index)' = File(b, Index)
        /\ File(Ckpt, Index)' = IF open THEN With(idx, "ngram") ELSE Partial
        /\ \A x \in Entries : Has(files', x) <=> x = <<Ckpt, Index>> \/ Has(files, x)
        /\ open' = ~open /\ step' = IF open THEN "over" ELSE step
        /\ UNCHANGED <<links, release, tool, fetched, idx, mem, todo, crashes, alone, byHand>>
    BY <1>1, <1>3, <2>1, <2>2, <2>3, WriteFrame DEF IInv
  <2>5. VariantInv'
    BY <1>3, <2>4, WriteKeepsVariant DEF IInv
  <2>6. /\ \A n \in {Extra, Config} : File(Ckpt, n)' = File(Ckpt, n)
        /\ \A s \in Shards : File(Ckpt, Shard(s))' = File(Ckpt, Shard(s))
    BY <1>3, <2>4
  <2>7. Scripted("strip")' =>
          /\ ShardsDone' /\ \A n \in {Extra, Config} : File(Ckpt, n)' = Released({})'
          /\ idx' = Released({"head", "fp8"})'
    BY <1>1, <1>2, <1>5, <2>1, <2>4, <2>6, ShardsKept DEF Scripted
  <2>8. StripInv'
    <3>1. CASE open
      <4>1. ~open' /\ step' = "over"
        BY <2>4, <3>1
      <4>2. Scripted("strip")' => File(Ckpt, Index)' = Released({"head", "fp8", "ngram"})'
        BY <1>1, <1>2, <1>4, <1>5, <2>1, <2>4, <3>1, NgramFacts DEF Scripted
      <4>. QED  BY <1>1, <2>7, <4>1, <4>2 DEF StripInv
    <3>2. CASE ~open
      <4>1. open' /\ step' = "index" /\ Has(files', <<Ckpt, Index>>)
        BY <1>3, <2>1, <2>4, <3>2
      <4>. QED  BY <1>1, <2>7, <4>1 DEF StripInv
    <3>. QED  BY <3>1, <3>2
  <2>. QED  BY <1>1, <2>4, <2>5, <2>8, OnlyTool DEF Common
<1>. QED  BY <1>6, <1>7, <1>8 DEF Strip

LEMMA ConfStep ==
  ASSUME IInv, Conf
  PROVE  IInv'
<1>1. /\ tool = "config" /\ tool' = "config" /\ step # "stopped" /\ fetched' = fetched
      /\ ~alone /\ alone' = alone
  BY DEF Conf, ConfigBackup, ConfigLoad, ConfigWrite, Stop, Write, hand, IInv, TypeInv
<1>2. \A ms : Released(ms)' = Released(ms)
  BY <1>1, SameReleased
<1>3. /\ \A s \in Shards : Shard(s) \in Names /\ Shard(s) # Config /\ Shard(s) # ConfigBak
      /\ {Extra, Index} \in SUBSET Names /\ {Extra, Index} \cap {Config, ConfigBak} = {}
      /\ Config \in Names /\ ConfigBak \in Names /\ Ckpt \in Dirs /\ Config # ConfigBak
      /\ Config \notin ShardKind /\ Config \notin ShardFiles
      /\ ConfigBak \notin ShardKind /\ ConfigBak \notin ShardFiles
      /\ <<Ckpt, Config>> \in Entries /\ <<Ckpt, ConfigBak>> \in Entries
  BY NamesAre, NameFacts DEF Entries
<1>4. /\ open => step \in {"start", "write"} /\ Has(files, IF step = "start" THEN <<Ckpt, ConfigBak>> ELSE <<Ckpt, Config>>)
      /\ ShardsDone /\ File(Ckpt, Extra) = Released({})
      /\ File(Ckpt, Index) = Released({"head", "fp8", "ngram"})
      /\ step \in {"start", "load"} => File(Ckpt, Config) = Released({})
      /\ step = "write" => mem = Released({"gptq"})
  BY <1>1 DEF IInv, ConfigInv, Scripted
<1>5. TypeInv
  BY DEF IInv
<1>6. CASE ConfigBackup
  <2>1. /\ step = "start" /\ Write(Ckpt, ConfigBak, File(Ckpt, Config), "load")
        /\ File(Ckpt, Config) = Released({}) /\ File(Ckpt, Config) \in Contents
    BY <1>4, <1>5, <1>6, NgramFacts DEF ConfigBackup
  <2>2. Backup(ConfigBak, File(Ckpt, Config))
    BY <1>5, <2>1, NgramFacts DEF Backup
  <2>3. /\ TypeInv' /\ OneKind' /\ BackupsAreOriginals'
        /\ \A b \in Dirs, m \in Names : m # ConfigBak => File(b, m)' = File(b, m)
        /\ \A b \in Dirs : ConfigBak \in ShardKind /\ b # Ckpt => File(b, ConfigBak)' = File(b, ConfigBak)
        /\ \A x \in Entries : Has(files', x) <=> x = <<Ckpt, ConfigBak>> \/ Has(files, x)
        /\ open' = ~open /\ step' = IF open THEN "load" ELSE step
        /\ UNCHANGED <<links, release, tool, fetched, idx, mem, todo, crashes, alone, byHand>>
    BY <1>1, <1>3, <1>4, <2>1, <2>2, WriteFrame DEF IInv
  <2>4. VariantInv'
    BY <1>3, <2>3, WriteKeepsVariant DEF IInv
  <2>5. /\ ShardsDone' /\ File(Ckpt, Extra)' = Released({})'
        /\ File(Ckpt, Index)' = Released({"head", "fp8", "ngram"})'
        /\ File(Ckpt, Config)' = Released({})'
    <3>1. /\ \A n \in {Extra, Index, Config} : File(Ckpt, n)' = File(Ckpt, n)
          /\ \A s \in Shards : File(Ckpt, Shard(s))' = File(Ckpt, Shard(s))
      BY <1>3, <2>3
    <3>. QED  BY <1>1, <1>2, <1>4, <2>1, <3>1, ShardsKept
  <2>6. ConfigInv'
    <3>1. CASE open
      <4>1. ~open' /\ step' = "load"
        BY <2>3, <3>1
      <4>. QED  BY <2>5, <4>1 DEF ConfigInv
    <3>2. CASE ~open
      <4>1. open' /\ step' = "start" /\ Has(files', <<Ckpt, ConfigBak>>)
        BY <1>3, <2>1, <2>3, <3>2
      <4>. QED  BY <2>5, <4>1 DEF ConfigInv
    <3>. QED  BY <3>1, <3>2
  <2>. QED  BY <1>1, <2>3, <2>4, <2>6, OnlyTool DEF Common
<1>7. CASE ConfigLoad
  <2>1. step = "load" /\ ~open /\ File(Ckpt, Config) = Released({}) /\ Readable(Ckpt, Config)
    BY <1>4, <1>5, <1>7, NgramFacts DEF ConfigLoad, Readable
  <2>2. /\ mem' = Released({"gptq"}) /\ step' = "write"
        /\ UNCHANGED <<links, files, release, open, idx, byHand>>
    BY <1>5, <1>7, <2>1, NgramFacts DEF ConfigLoad, hand
  <2>3. /\ FileSystem(files') /\ OneKind' /\ BackupsAreOriginals' /\ VariantInv'
        /\ \A d, n : File(d, n)' = File(d, n)
    BY <2>2, SameFiles
  <2>4. mem' \in Contents
    BY <1>5, <2>2, ReleasedFacts DEF Marks
  <2>5. Common'
    BY <1>1, <2>2, <2>3, <2>4 DEF Common, TypeInv, IInv
  <2>6. /\ ShardsDone' /\ File(Ckpt, Extra)' = Released({})'
        /\ File(Ckpt, Index)' = Released({"head", "fp8", "ngram"})'
        /\ mem' = Released({"gptq"})'
    BY <1>1, <1>2, <1>4, <2>2, <2>3, ShardsKept
  <2>7. ConfigInv'
    BY <2>1, <2>2, <2>6 DEF ConfigInv
  <2>. QED  BY <1>1, <2>5, <2>7, OnlyTool
<1>8. CASE ConfigWrite
  <2>1. step = "write" /\ Write(Ckpt, Config, mem, "over") /\ mem \in Contents /\ mem = Released({"gptq"})
    BY <1>4, <1>5, <1>8 DEF ConfigWrite, TypeInv
  <2>2. Backup(Config, mem)
    BY NamesAre, NameFacts DEF Backup
  <2>3. /\ TypeInv' /\ OneKind' /\ BackupsAreOriginals'
        /\ \A b \in Dirs, m \in Names : m # Config => File(b, m)' = File(b, m)
        /\ \A b \in Dirs : Config \in ShardKind /\ b # Ckpt => File(b, Config)' = File(b, Config)
        /\ File(Ckpt, Config)' = IF open THEN mem ELSE Partial
        /\ \A x \in Entries : Has(files', x) <=> x = <<Ckpt, Config>> \/ Has(files, x)
        /\ open' = ~open /\ step' = IF open THEN "over" ELSE step
        /\ UNCHANGED <<links, release, tool, fetched, idx, mem, todo, crashes, alone, byHand>>
    BY <1>1, <1>3, <1>4, <2>1, <2>2, WriteFrame DEF IInv
  <2>4. VariantInv'
    BY <1>3, <2>3, WriteKeepsVariant DEF IInv
  <2>5. /\ ShardsDone' /\ File(Ckpt, Extra)' = Released({})'
        /\ File(Ckpt, Index)' = Released({"head", "fp8", "ngram"})'
        /\ mem' = Released({"gptq"})'
    <3>1. /\ \A n \in {Extra, Index} : File(Ckpt, n)' = File(Ckpt, n)
          /\ \A s \in Shards : File(Ckpt, Shard(s))' = File(Ckpt, Shard(s))
      BY <1>3, <2>3
    <3>. QED  BY <1>1, <1>2, <1>4, <2>1, <2>3, <3>1, ShardsKept
  <2>6. ConfigInv'
    <3>1. CASE open
      <4>1. ~open' /\ step' = "over" /\ File(Ckpt, Config)' = Released({"gptq"})'
        BY <1>2, <2>1, <2>3, <3>1
      <4>. QED  BY <2>5, <4>1 DEF ConfigInv
    <3>2. CASE ~open
      <4>1. open' /\ step' = "write" /\ Has(files', <<Ckpt, Config>>)
        BY <1>3, <2>1, <2>3, <3>2
      <4>. QED  BY <2>5, <4>1 DEF ConfigInv
    <3>. QED  BY <3>1, <3>2
  <2>. QED  BY <1>1, <2>3, <2>4, <2>6, OnlyTool DEF Common
<1>. QED  BY <1>6, <1>7, <1>8 DEF Conf

LEMMA PreparedKept ==
  ASSUME fetched' = fetched, Prepared,
         \A n \in Repo : File(Ckpt, n)' = File(Ckpt, n)
  PROVE  Prepared'
<1>1. \A ms : Released(ms)' = Released(ms)
  BY SameReleased
<1>. QED  BY <1>1, ShardsKept, NamesAre, NameFacts DEF Prepared

LEMMA CleanStep ==
  ASSUME IInv, CleanUp
  PROVE  IInv'
<1>1. /\ tool = "clean" /\ tool' = "clean" /\ step = "start" /\ fetched' = fetched
      /\ ~alone /\ alone' = alone
      /\ UNCHANGED <<links, release, open, idx, mem, byHand>>
  BY DEF CleanUp, hand, memory, IInv, TypeInv
<1>2. Prepared /\ ~open
  BY <1>1 DEF IInv, CleanInv, Scripted
<1>3. CASE files' = files /\ step' = "over"
  <2>1. /\ FileSystem(files') /\ OneKind' /\ BackupsAreOriginals' /\ VariantInv'
        /\ \A d, n : File(d, n)' = File(d, n)
    BY <1>1, <1>3, SameFiles
  <2>2. Common'
    BY <1>1, <1>3, <2>1 DEF Common, TypeInv, IInv
  <2>3. CleanInv'
    BY <1>1, <1>2, <1>3, <2>1, PreparedKept DEF CleanInv
  <2>. QED  BY <1>1, <2>2, <2>3, OnlyTool
<1>4. CASE step' = step /\ \E n \in SideBaks : files' = Without(files, {<<Ckpt, n>>})
  <2>1. PICK n \in SideBaks : files' = Without(files, {<<Ckpt, n>>})
    BY <1>4
  <2>2. PICK es : es = {<<Ckpt, n>>}
    OBVIOUS
  <2>3. files' = Without(files, es)
    BY <2>1, <2>2
  <2>4. /\ FileSystem(files') /\ OneKind' /\ BackupsAreOriginals' /\ VariantInv'
        /\ \A b \in Dirs, m \in Names : <<b, m>> \notin es => File(b, m)' = File(b, m)
    BY <1>1, <2>3, RemoveFrame DEF IInv, TypeInv
  <2>5. Common'
    BY <1>1, <1>4, <2>4 DEF Common, TypeInv, IInv
  <2>6. \A m \in Repo : m \in Names /\ <<Ckpt, m>> \notin es
    BY <2>2, NamesAre
  <2>7. \A m \in Repo : File(Ckpt, m)' = File(Ckpt, m)
    BY <2>4, <2>6, NamesAre
  <2>8. CleanInv'
    BY <1>1, <1>2, <1>4, <2>7, PreparedKept DEF CleanInv
  <2>. QED  BY <1>1, <2>5, <2>8, OnlyTool
<1>5. \/ files' = files /\ step' = "over"
      \/ step' = step /\ \E n \in SideBaks : files' = Without(files, {<<Ckpt, n>>})
  BY DEF CleanUp
<1>. QED  BY <1>3, <1>4, <1>5

\* The last tool writes one of the files it makes afresh.
LEMMA MtpWrite ==
  ASSUME IInv, tool = "mtp", step # "stopped", Prepared, Separate,
         NEW n \in Regen, NEW c \in Contents, NEW then, then # "stopped",
         Write(Variant, n, c, then), open => Has(files, <<Variant, n>>)
  PROVE  /\ Common' /\ Separate' /\ Prepared'
         /\ \A m \in Names : File(Ckpt, m)' = File(Ckpt, m)
         /\ \A m \in Names : m # n => File(Variant, m)' = File(Variant, m)
         /\ File(Variant, n)' = IF open THEN c ELSE Partial
         /\ Has(files', <<Variant, n>>)
         /\ open' = ~open /\ step' = IF open THEN then ELSE step
         /\ UNCHANGED <<links, release, tool, fetched, idx, mem, todo, crashes, alone, byHand>>
<1>1. /\ n \in Names /\ n \notin ShardKind /\ n \notin ShardFiles
      /\ Variant \in Dirs /\ Ckpt \in Dirs /\ Ckpt # Variant /\ <<Variant, n>> \in Entries
      /\ \A s \in Shards : <<Variant, Shard(s)>> \in Entries
      /\ \A m \in Regen : <<Variant, m>> \in Entries
  BY NamesAre
<1>2. Backup(n, c)
  BY NamesAre DEF Backup
<1>3. Single(files, <<Variant, n>>)
  BY DEF Separate
<1>4. /\ TypeInv' /\ OneKind' /\ BackupsAreOriginals'
      /\ \A b \in Dirs, m \in Names : m # n => File(b, m)' = File(b, m)
      /\ \A b \in Dirs : n \in ShardKind /\ b # Variant => File(b, n)' = File(b, n)
      /\ \A b \in Dirs \ {Variant} : File(b, n)' = File(b, n)
      /\ File(Variant, n)' = IF open THEN c ELSE Partial
      /\ \A x \in Entries : Has(files', x) <=> x = <<Variant, n>> \/ Has(files, x)
      /\ \A x \in Entries : Single(files, x) => Single(files', x)
      /\ open' = ~open /\ step' = IF open THEN then ELSE step
      /\ UNCHANGED <<links, release, tool, fetched, idx, mem, todo, crashes, alone, byHand>>
  BY <1>1, <1>2, <1>3, WriteFrame DEF IInv
<1>5. VariantInv'
  BY <1>1, <1>4, WriteKeepsVariant DEF IInv
<1>6. Separate'
  BY <1>1, <1>4 DEF Separate, Regen
<1>7. \A m \in Names : File(Ckpt, m)' = File(Ckpt, m)
  BY <1>1, <1>4
<1>8. Prepared'
  BY <1>4, <1>7, PreparedKept, NamesAre
<1>. QED  BY <1>1, <1>4, <1>5, <1>6, <1>7, <1>8 DEF Common

\* A name linked into the variant.
LEMMA LinkFrame ==
  ASSUME FileSystem(files), OneKind, BackupsAreOriginals,
         NEW n \in Names, Has(files, <<Ckpt, n>>), ~Has(files, <<Variant, n>>),
         files' = Linked(files, <<Ckpt, n>>, <<Variant, n>>), UNCHANGED byHand
  PROVE  /\ FileSystem(files') /\ OneKind' /\ BackupsAreOriginals'
         /\ \A m \in Names : File(Ckpt, m)' = File(Ckpt, m)
         /\ \A m \in Names : m # n => File(Variant, m)' = File(Variant, m)
         /\ File(Variant, n)' = File(Ckpt, n)
         /\ \A x \in Entries : Has(files', x) <=> x = <<Variant, n>> \/ Has(files, x)
<1>1. Ckpt \in Dirs /\ Variant \in Dirs /\ Ckpt # Variant
  BY NamesAre
<1>2. PICK e \in Entries, new \in Entries : e = <<Ckpt, n>> /\ new = <<Variant, n>>
  BY <1>1 DEF Entries
<1>3. /\ FileSystem(files')
      /\ \A x \in Entries : Has(files', x) <=> x = new \/ Has(files, x)
      /\ \A x \in Entries : Val(files', x) = IF x = new THEN Val(files, e) ELSE Val(files, x)
      /\ \A x, y \in Entries :
           Tied(files', x, y) <=> Tied(files, IF x = new THEN e ELSE x, IF y = new THEN e ELSE y)
  BY <1>2, LinkedFacts
<1>4. ASSUME NEW b \in Dirs, NEW m \in Names
      PROVE  <<b, m>> \in Entries /\ File(b, m) = Val(files, <<b, m>>) /\ File(b, m)' = Val(files', <<b, m>>)
  BY FileVal, FileValNext DEF Entries
<1>5. /\ \A b \in Dirs, m \in Names : <<b, m>> # new => File(b, m)' = File(b, m)
      /\ File(Variant, n)' = File(Ckpt, n)
  <2>1. ASSUME NEW b \in Dirs, NEW m \in Names, <<b, m>> # new
        PROVE  File(b, m)' = File(b, m)
    <3>1. <<b, m>> \in Entries /\ File(b, m) = Val(files, <<b, m>>) /\ File(b, m)' = Val(files', <<b, m>>)
      BY <1>4
    <3>. QED  BY <1>3, <2>1, <3>1
  <2>2. File(Variant, n)' = File(Ckpt, n)
    <3>1. File(Ckpt, n) = Val(files, e) /\ File(Variant, n)' = Val(files', new)
      BY <1>1, <1>2, <1>4
    <3>. QED  BY <1>3, <3>1
  <2>. QED  BY <2>1, <2>2
<1>6. OneKind'
  <2>. SUFFICES ASSUME NEW a \in Dirs, NEW b \in Dirs, NEW p \in Names, NEW q \in Names,
                       Tied(files', <<a, p>>, <<b, q>>)
                PROVE  p = q \/ (p \in ShardKind /\ q \in ShardKind)
    BY DEF OneKind, ShardKind
  <2>1. <<a, p>> \in Entries /\ <<b, q>> \in Entries
    BY DEF Entries
  <2>2. Tied(files, IF <<a, p>> = new THEN e ELSE <<a, p>>, IF <<b, q>> = new THEN e ELSE <<b, q>>)
    BY <1>3, <2>1
  <2>3. \E c \in Dirs : (IF <<a, p>> = new THEN e ELSE <<a, p>>) = <<c, p>>
    <3>1. CASE <<a, p>> = new
      BY <1>1, <1>2, <3>1
    <3>2. CASE <<a, p>> # new
      BY <3>2
    <3>. QED  BY <3>1, <3>2
  <2>4. \E c \in Dirs : (IF <<b, q>> = new THEN e ELSE <<b, q>>) = <<c, q>>
    <3>1. CASE <<b, q>> = new
      BY <1>1, <1>2, <3>1
    <3>2. CASE <<b, q>> # new
      BY <3>2
    <3>. QED  BY <3>1, <3>2
  <2>5. PICK c \in Dirs, d \in Dirs : Tied(files, <<c, p>>, <<d, q>>)
    BY <2>2, <2>3, <2>4
  <2>. QED  BY <2>5 DEF OneKind
<1>7. BackupsAreOriginals'
  <2>1. \A b \in Dirs, m \in Names : Backup(m, File(b, m))
    BY BackupsAre
  <2>2. ASSUME NEW b \in Dirs, NEW m \in Names PROVE Backup(m, File(b, m)')
    <3>1. CASE <<b, m>> = new
      <4>1. b = Variant /\ m = n
        BY <1>2, <3>1
      <4>2. File(b, m)' = File(Ckpt, m)
        BY <1>5, <4>1
      <4>. QED  BY <1>1, <2>1, <4>2
    <3>2. CASE <<b, m>> # new
      <4>1. File(b, m)' = File(b, m)
        BY <1>5, <3>2
      <4>. QED  BY <2>1, <4>1
    <3>. QED  BY <3>1, <3>2
  <2>. QED  BY <2>2, BackupsAreNext
<1>8. /\ \A m \in Names : File(Ckpt, m)' = File(Ckpt, m)
      /\ \A m \in Names : m # n => File(Variant, m)' = File(Variant, m)
  BY <1>1, <1>2, <1>5
<1>9. \A x \in Entries : Has(files', x) <=> x = <<Variant, n>> \/ Has(files, x)
  BY <1>2, <1>3
<1>. QED  BY <1>3, <1>5, <1>6, <1>7, <1>8, <1>9

SourceSame == \A n \in Names : File(Ckpt, n)' = File(Ckpt, n)

\* What the last tool finds when it starts.
LEMMA PreparedFacts ==
  ASSUME TypeInv, Prepared
  PROVE  /\ \A s \in Shards : Has(files, <<Ckpt, Shard(s)>>)
         /\ \A n \in Regen : Readable(Ckpt, n)
         /\ "gptq" \in File(Ckpt, Config).marks
         /\ With(File(Ckpt, Extra), "mtp") = Released({"mtp"})
         /\ With(File(Ckpt, Index), "mtp") = Released({"head", "fp8", "ngram", "mtp"})
         /\ With(File(Ckpt, Config), "mtp") = Released({"gptq", "mtp"})
         /\ \A n \in Regen : With(File(Ckpt, n), "mtp") \in Contents
<1>1. ASSUME NEW s \in Shards PROVE Has(files, <<Ckpt, Shard(s)>>)
  <2>1. HeadMark(s) \cup SideMark(s) \in SUBSET Marks
    BY DEF HeadMark, SideMark, Marks
  <2>2. File(Ckpt, Shard(s)) # Partial
    BY <2>1, ReleasedFacts DEF Prepared, ShardsDone
  <2>. QED  BY <2>2, FileFacts, NamesAre DEF Readable
<1>2. {} \in SUBSET Marks /\ {"head", "fp8", "ngram"} \in SUBSET Marks /\ {"gptq"} \in SUBSET Marks
  BY DEF Marks
<1>3. \A n \in Regen : Readable(Ckpt, n)
  BY <1>2, ReleasedFacts, NameFacts DEF Prepared, Readable
<1>4. "gptq" \in File(Ckpt, Config).marks
  BY <1>2, ReleasedFacts DEF Prepared
<1>5. /\ With(File(Ckpt, Extra), "mtp") = Released({} \cup {"mtp"})
      /\ With(File(Ckpt, Index), "mtp") = Released({"head", "fp8", "ngram"} \cup {"mtp"})
      /\ With(File(Ckpt, Config), "mtp") = Released({"gptq"} \cup {"mtp"})
  BY WithReleased DEF Prepared
<1>6. /\ {} \cup {"mtp"} = {"mtp"} /\ {"gptq"} \cup {"mtp"} = {"gptq", "mtp"}
      /\ {"head", "fp8", "ngram"} \cup {"mtp"} = {"head", "fp8", "ngram", "mtp"}
  OBVIOUS
<1>7. \A n \in Regen : With(File(Ckpt, n), "mtp") \in Contents
  BY FileFacts, NamesAre, WithFacts DEF Marks
<1>. QED  BY <1>1, <1>3, <1>4, <1>5, <1>6, <1>7

LEMMA LinkStep ==
  ASSUME IInv, LinkStart \/ LinkNext \/ LinkCopy
  PROVE  IInv' /\ SourceSame
<1>1. /\ tool = "mtp" /\ tool' = "mtp" /\ step # "stopped" /\ fetched' = fetched
      /\ ~alone /\ alone' = alone /\ step \in {"start", "link", "copy"}
  BY DEF LinkStart, LinkNext, LinkCopy, Write, hand, IInv, TypeInv
<1>2. TypeInv /\ MtpInv /\ Scripted("mtp") /\ Prepared
  BY <1>1 DEF IInv, MtpInv, Scripted
<1>3. /\ \A s \in Shards : Shard(s) \in Names /\ Shard(s) \notin Regen /\ <<Variant, Shard(s)>> \in Entries
      /\ \A n \in Names : <<Variant, n>> \in Entries /\ <<Ckpt, n>> \in Entries
      /\ \A n \in Repo : n \in Names
      /\ Variant \in Dirs /\ Ckpt \in Dirs /\ Ckpt # Variant
  BY NamesAre DEF Entries
<1>4. CASE LinkStart
  <2>1. /\ todo' = {n \in Names : Exists(Ckpt, n)} \ Regen /\ step' = "link" /\ step = "start"
        /\ UNCHANGED <<links, files, release, open, idx, mem, byHand>>
    BY <1>4 DEF LinkStart, hand
  <2>2. ~open
    BY <1>2, <2>1 DEF MtpInv
  <2>3. /\ FileSystem(files') /\ OneKind' /\ BackupsAreOriginals' /\ VariantInv'
        /\ \A d, n : File(d, n)' = File(d, n)
    BY <2>1, SameFiles
  <2>4. Common'
    BY <1>1, <2>1, <2>3 DEF Common, TypeInv, IInv
  <2>5. Prepared' /\ SourceSame
    BY <1>1, <1>2, <2>3, PreparedKept DEF SourceSame
  <2>6. /\ todo' \in SUBSET (Names \ Regen) /\ \A n \in todo' : Has(files, <<Ckpt, n>>)
        /\ \A s \in Shards : Shard(s) \in todo'
    BY <1>2, <1>3, <2>1, FileVal, PreparedFacts
  <2>7. MtpInv'
    BY <2>1, <2>2, <2>5, <2>6 DEF MtpInv, Regen
  <2>. QED  BY <1>1, <2>4, <2>5, <2>7, OnlyTool
<1>5. CASE LinkNext
  <2>1. /\ step = "link" /\ todo # {} /\ ~open
        /\ todo \in SUBSET (Names \ Regen) /\ \A n \in todo : Has(files, <<Ckpt, n>>)
        /\ \A s \in Shards : Shard(s) \in todo \/ Has(files, <<Variant, Shard(s)>>)
        /\ UNCHANGED <<links, release, open, idx, mem, byHand>>
    BY <1>2, <1>5 DEF LinkNext, MtpInv, hand
  <2>2. PICK n \in todo : n = CHOOSE k \in todo : TRUE
    BY <2>1
  <2>3. n \in Names \ Regen /\ Has(files, <<Ckpt, n>>)
    BY <2>1
  <2>4. CASE Has(files, <<Variant, n>>)
    <3>1. todo' = todo \ {n} /\ files' = files /\ step' = "link"
      BY <1>5, <2>1, <2>2, <2>4, FileVal DEF LinkNext
    <3>2. /\ FileSystem(files') /\ OneKind' /\ BackupsAreOriginals' /\ VariantInv'
          /\ \A d, k : File(d, k)' = File(d, k)
      BY <2>1, <3>1, SameFiles
    <3>3. Common'
      BY <1>1, <2>1, <3>1, <3>2 DEF Common, TypeInv, IInv
    <3>4. Prepared' /\ SourceSame
      BY <1>1, <1>2, <3>2, PreparedKept DEF SourceSame
    <3>5. MtpInv'
      BY <2>1, <2>4, <3>1, <3>4 DEF MtpInv, Regen
    <3>. QED  BY <1>1, <3>3, <3>4, <3>5, OnlyTool
  <2>5. CASE ~Has(files, <<Variant, n>>) /\ links
    <3>1. todo' = todo \ {n} /\ files' = Linked(files, <<Ckpt, n>>, <<Variant, n>>) /\ step' = "link"
      BY <1>5, <2>1, <2>2, <2>5, FileVal DEF LinkNext
    <3>2. /\ FileSystem(files') /\ OneKind' /\ BackupsAreOriginals'
          /\ \A m \in Names : File(Ckpt, m)' = File(Ckpt, m)
          /\ \A m \in Names : m # n => File(Variant, m)' = File(Variant, m)
          /\ File(Variant, n)' = File(Ckpt, n)
          /\ \A x \in Entries : Has(files', x) <=> x = <<Variant, n>> \/ Has(files, x)
      BY <1>2, <2>1, <2>3, <2>5, <3>1, LinkFrame DEF IInv, TypeInv
    <3>3. VariantInv'
      <4>. SUFFICES ASSUME links, release = 1, NEW s \in Shards, Has(files', <<Variant, Shard(s)>>)
                    PROVE  File(Variant, Shard(s))' = [release |-> 1, marks |-> HeadMark(s) \cup SideMark(s)]
        BY <2>1 DEF VariantInv, HeadMark, SideMark
      <4>1. CASE Shard(s) = n
        <5>1. fetched = 1
          BY <1>2 DEF TypeInv
        <5>. QED  BY <1>2, <3>2, <4>1, <5>1 DEF Prepared, ShardsDone, Released
      <4>2. CASE Shard(s) # n
        <5>1. Has(files, <<Variant, Shard(s)>>) /\ File(Variant, Shard(s))' = File(Variant, Shard(s))
          BY <1>3, <3>2, <4>2
        <5>. QED  BY <5>1 DEF IInv, VariantInv
      <4>. QED  BY <4>1, <4>2
    <3>4. Common'
      BY <1>1, <2>1, <3>2, <3>3 DEF Common, TypeInv, IInv
    <3>5. Prepared' /\ SourceSame
      BY <1>1, <1>2, <1>3, <3>2, PreparedKept DEF SourceSame
    <3>6. /\ todo' \in SUBSET (Names \ Regen) /\ \A k \in todo' : Has(files', <<Ckpt, k>>)
          /\ \A s \in Shards : Shard(s) \in todo' \/ Has(files', <<Variant, Shard(s)>>)
      BY <1>3, <2>1, <3>1, <3>2
    <3>7. MtpInv'
      BY <2>1, <3>1, <3>5, <3>6 DEF MtpInv, Regen
    <3>. QED  BY <1>1, <3>4, <3>5, <3>7, OnlyTool
  <2>6. CASE ~Has(files, <<Variant, n>>) /\ ~links
    <3>1. todo' = todo /\ files' = files /\ step' = "copy"
      BY <1>5, <2>1, <2>2, <2>6, FileVal DEF LinkNext
    <3>2. /\ FileSystem(files') /\ OneKind' /\ BackupsAreOriginals' /\ VariantInv'
          /\ \A d, k : File(d, k)' = File(d, k)
      BY <2>1, <3>1, SameFiles
    <3>3. Common'
      BY <1>1, <2>1, <3>1, <3>2 DEF Common, TypeInv, IInv
    <3>4. Prepared' /\ SourceSame
      BY <1>1, <1>2, <3>2, PreparedKept DEF SourceSame
    <3>5. Fresh(<<Variant, CHOOSE k \in todo : TRUE>>)'
      BY <2>1, <2>2, <2>6, <3>1 DEF Fresh
    <3>6. MtpInv'
      BY <2>1, <2>6, <3>1, <3>4, <3>5 DEF MtpInv, Regen
    <3>. QED  BY <1>1, <3>3, <3>4, <3>6, OnlyTool
  <2>. QED  BY <2>4, <2>5, <2>6
<1>6. CASE LinkCopy
  <2>1. /\ step = "copy" /\ todo # {} /\ ~links
        /\ todo \in SUBSET (Names \ Regen) /\ \A n \in todo : Has(files, <<Ckpt, n>>)
        /\ \A s \in Shards : Shard(s) \in todo \/ Has(files, <<Variant, Shard(s)>>)
        /\ Fresh(<<Variant, CHOOSE n \in todo : TRUE>>)
    BY <1>2, <1>6 DEF LinkCopy, MtpInv
  <2>2. PICK n \in todo : n = CHOOSE k \in todo : TRUE
    BY <2>1
  <2>3. n \in Names /\ Fresh(<<Variant, n>>) /\ Write(Variant, n, File(Ckpt, n), "link")
    BY <1>6, <2>1, <2>2 DEF LinkCopy
  <2>4. File(Ckpt, n) \in Contents /\ Backup(n, File(Ckpt, n))
    BY <1>2, <1>3, <2>3, FileFacts, BackupsAre DEF IInv
  <2>5. /\ TypeInv' /\ OneKind' /\ BackupsAreOriginals'
        /\ \A b \in Dirs, m \in Names : m # n => File(b, m)' = File(b, m)
        /\ Single(files, <<Variant, n>>) \/ Fresh(<<Variant, n>>) =>
             \A b \in Dirs \ {Variant} : File(b, n)' = File(b, n)
        /\ \A x \in Entries : Has(files', x) <=> x = <<Variant, n>> \/ Has(files, x)
        /\ \A x \in Entries : Single(files, x) => Single(files', x)
        /\ ~Has(files, <<Variant, n>>) => Single(files', <<Variant, n>>)
        /\ open' = ~open /\ step' = IF open THEN "link" ELSE step
        /\ UNCHANGED <<links, release, tool, fetched, idx, mem, todo, crashes, alone, byHand>>
    BY <1>1, <1>3, <2>1, <2>3, <2>4, WriteFrame DEF IInv, Fresh
  <2>6. VariantInv'
    BY <2>1, <2>5 DEF VariantInv
  <2>7. SourceSame
    BY <1>3, <2>3, <2>5 DEF SourceSame
  <2>8. Prepared'
    BY <1>1, <1>2, <1>3, <2>7, PreparedKept DEF SourceSame
  <2>9. /\ \A k \in todo' : Has(files', <<Ckpt, k>>)
        /\ \A s \in Shards : Shard(s) \in todo' \/ Has(files', <<Variant, Shard(s)>>)
    BY <1>3, <2>1, <2>5
  <2>10. (CHOOSE k \in todo : TRUE)' = n
    BY <2>2, <2>5
  <2>11. MtpInv'
    <3>1. CASE open
      <4>1. ~open' /\ step' = "link"
        BY <2>5, <3>1
      <4>. QED  BY <2>1, <2>5, <2>8, <2>9, <4>1 DEF MtpInv, Regen
    <3>2. CASE ~open
      <4>1. open' /\ step' = "copy"
        BY <2>1, <2>5, <3>2
      <4>2. Fresh(<<Variant, CHOOSE k \in todo : TRUE>>)'
        BY <1>3, <2>3, <2>5, <2>10, <3>2, <4>1 DEF Fresh
      <4>. QED  BY <2>1, <2>5, <2>8, <2>9, <4>1, <4>2 DEF MtpInv, Regen
    <3>. QED  BY <3>1, <3>2
  <2>. QED  BY <1>1, <2>5, <2>6, <2>7, <2>11, OnlyTool DEF Common
<1>. QED  BY <1>4, <1>5, <1>6

LEMMA FewFinite ==
  ASSUME NEW a, NEW b, NEW c
  PROVE  IsFiniteSet({a, b, c})
<1>1. IsFiniteSet({a})
  BY FS_Singleton
<1>2. IsFiniteSet({a} \cup {b})
  BY <1>1, FS_AddElement
<1>3. IsFiniteSet(({a} \cup {b}) \cup {c})
  BY <1>2, FS_AddElement
<1>4. ({a} \cup {b}) \cup {c} = {a, b, c}
  OBVIOUS
<1>. QED  BY <1>3, <1>4

LEMMA EntriesFinite == IsFiniteSet(Entries)
<1>. DEFINE A == Shards \cup {"extra", "index", "config"}
<1>. DEFINE B == {"", ".bf16head.bak", ".bf16.bak"} \cup {"", ".with-ngram.bak", ".autoround"}
<1>1. IsFiniteSet(Shards) /\ ToSet(SideShards) \subseteq Shards /\ HeadShard \in Shards
  BY ShardsAssumption, SideShardsAre
<1>2. IsFiniteSet(A)
  BY <1>1, FewFinite, FS_Union
<1>3. IsFiniteSet(B)
  BY FewFinite, FS_Union
<1>4. IsFiniteSet(A \X B)
  BY <1>2, <1>3, FS_Product
<1>5. ASSUME NEW n \in Names
      PROVE  n \in A \X B
  <2>1. (\A s \in Shards : s \in A) /\ "extra" \in A /\ "index" \in A /\ "config" \in A
    OBVIOUS
  <2>2. /\ "" \in B /\ ".bf16head.bak" \in B /\ ".bf16.bak" \in B
        /\ ".with-ngram.bak" \in B /\ ".autoround" \in B
    OBVIOUS
  <2>. HIDE DEF A, B
  <2>3. \A s \in A : \A x \in B : <<s, x>> \in A \X B
    OBVIOUS
  <2>4. CASE n \in ShardFiles
    <3>1. PICK s \in Shards : n = <<s, "">>
      BY <2>4 DEF ShardFiles, Shard
    <3>. QED  BY <2>1, <2>2, <2>3, <3>1
  <2>5. CASE n \in SideBaks
    <3>1. PICK s \in Shards : n = <<s, ".bf16.bak">>
      BY <1>1, <2>5 DEF SideBaks, SideBak
    <3>. QED  BY <2>1, <2>2, <2>3, <3>1
  <2>6. CASE n = HeadBak
    BY <1>1, <2>1, <2>2, <2>3, <2>6 DEF HeadBak
  <2>7. CASE n \in {Extra, Index, Config}
    BY <2>1, <2>2, <2>3, <2>7 DEF Extra, Index, Config
  <2>8. CASE n = IndexBak \/ n = ConfigBak
    BY <2>1, <2>2, <2>3, <2>8 DEF IndexBak, ConfigBak
  <2>. QED  BY <2>4, <2>5, <2>6, <2>7, <2>8, NameFacts DEF ShardKind
<1>6. IsFiniteSet(Names)
  <2>. HIDE DEF A, B
  <2>. QED  BY <1>4, <1>5, FS_Subset
<1>7. Dirs = {Ckpt, Variant, Variant}
  BY DEF Dirs
<1>8. IsFiniteSet(Dirs)
  BY <1>7, FewFinite
<1>. QED  BY <1>6, <1>8, FS_Product DEF Entries

\* An entry that shares its file with no other is the file's only one.
LEMMA AloneIsSingle ==
  ASSUME NEW fs, FileSystem(fs), NEW e \in Entries,
         \A f \in fs : e \in f.entries => ~(Cardinality(f.entries) > 1)
  PROVE  Single(fs, e)
<1>. SUFFICES ASSUME NEW g \in Entries, NEW f \in fs, e \in f.entries, g \in f.entries
              PROVE  g = e
  BY DEF Single, Tied
<1>1. f.entries \in SUBSET Entries
  BY DEF FileSystem
<1>2. IsFiniteSet(f.entries) /\ Cardinality(f.entries) \in Nat
  BY <1>1, EntriesFinite, FS_Subset, FS_CardinalityType
<1>3. Cardinality({e}) = 1 /\ {e} \in SUBSET f.entries
  BY FS_Singleton
<1>4. Cardinality({e}) <= Cardinality(f.entries)
  BY <1>2, <1>3, FS_Subset
<1>5. Cardinality(f.entries) = Cardinality({e})
  BY <1>2, <1>3, <1>4
<1>6. f.entries = {e}
  BY <1>2, <1>3, <1>5, FS_Subset
<1>. QED  BY <1>6

LEMMA MakeStep ==
  ASSUME IInv,
         \/ Unshare \/ ExpertsLoad \/ ExpertsSave
         \/ MtpIndexLoad \/ MtpIndex \/ MtpConfigLoad \/ MtpConfig
  PROVE  IInv' /\ SourceSame
<1>1. /\ tool = "mtp" /\ tool' = "mtp" /\ step # "stopped" /\ fetched' = fetched
      /\ ~alone /\ alone' = alone
  BY DEF Unshare, ExpertsLoad, ExpertsSave, MtpIndexLoad, MtpIndex, MtpConfigLoad, MtpConfig, JsonLoad,
     Stop, Write, hand, IInv, TypeInv
<1>2. TypeInv /\ MtpInv /\ Scripted("mtp") /\ Prepared
  BY <1>1 DEF IInv, MtpInv, Scripted
<1>3. /\ \A s \in Shards : Shard(s) \in Names /\ Shard(s) \notin Regen /\ <<Variant, Shard(s)>> \in Entries
      /\ \A n \in Names : <<Variant, n>> \in Entries /\ <<Ckpt, n>> \in Entries
      /\ \A n \in Repo : n \in Names
      /\ \A n \in Regen : n \in Names
      /\ Variant \in Dirs /\ Ckpt \in Dirs /\ Ckpt # Variant
      /\ {Extra, Index, Config} = Regen /\ Extra # Index /\ Extra # Config /\ Index # Config
  BY NamesAre, NameFacts DEF Entries
<1>4. \A ms : Released(ms)' = Released(ms)
  BY <1>1, SameReleased
<1>5. CASE Unshare
  <2>1. /\ step = "link" /\ todo = {} /\ step' = "extra" /\ ~open
        /\ files' = Without(files, {Variant} \X Shared)
        /\ UNCHANGED <<links, release, open, idx, mem, todo, byHand>>
    BY <1>2, <1>5 DEF Unshare, MtpInv, memory, hand
  <2>2. \A s \in Shards : Has(files, <<Variant, Shard(s)>>)
    BY <1>2, <2>1 DEF MtpInv
  <2>3. PICK es : es = {Variant} \X Shared
    OBVIOUS
  <2>4. /\ FileSystem(files') /\ OneKind' /\ BackupsAreOriginals' /\ VariantInv'
        /\ \A x \in Entries : Has(files', x) <=> x \notin es /\ Has(files, x)
        /\ \A b \in Dirs, n \in Names : <<b, n>> \notin es => File(b, n)' = File(b, n)
        /\ \A x \in Entries : x \in es \/ Single(files, x) => Single(files', x)
    BY <2>1, <2>3, RemoveFrame DEF IInv, TypeInv
  <2>5. Common'
    BY <1>1, <2>1, <2>4 DEF Common, TypeInv, IInv
  <2>6. /\ \A s \in Shards : <<Variant, Shard(s)>> \notin es
        /\ \A n \in Names : <<Ckpt, n>> \notin es
        /\ \A n \in Regen : <<Variant, n>> \in es <=> n \in Shared
    BY <1>3, <2>3 DEF Shared
  <2>7. SourceSame
    BY <1>3, <2>4, <2>6 DEF SourceSame
  <2>8. Prepared'
    BY <1>1, <1>2, <1>3, <2>7, PreparedKept DEF SourceSame
  <2>9. ASSUME NEW n \in Regen PROVE Single(files', <<Variant, n>>)
    <3>1. CASE n \in Shared
      BY <1>3, <2>4, <2>6, <3>1
    <3>2. CASE n \notin Shared
      <4>1. \A f \in files : <<Variant, n>> \in f.entries => ~(Cardinality(f.entries) > 1)
        BY <3>2 DEF Shared
      <4>2. Single(files, <<Variant, n>>)
        BY <1>2, <1>3, <4>1, AloneIsSingle DEF TypeInv
      <4>. QED  BY <1>3, <2>4, <4>2
    <3>. QED  BY <3>1, <3>2
  <2>10. Separate'
    BY <1>3, <2>2, <2>4, <2>6, <2>9 DEF Separate, Regen
  <2>11. MtpInv'
    BY <2>1, <2>8, <2>10 DEF MtpInv
  <2>. QED  BY <1>1, <2>5, <2>7, <2>11, OnlyTool
<1>6. CASE ExpertsLoad
  <2>1. step = "extra" /\ ~open /\ Separate /\ Readable(Ckpt, Extra)
    BY <1>2, <1>3, <1>6, PreparedFacts DEF ExpertsLoad, MtpInv
  <2>2. PICK es : es = {<<Variant, Extra>>}
    OBVIOUS
  <2>3. /\ mem' = Released({"mtp"}) /\ mem' \in Contents /\ step' = "save"
        /\ files' = Without(files, es)
        /\ UNCHANGED <<links, release, open, idx, byHand>>
    BY <1>2, <1>3, <1>6, <2>1, <2>2, PreparedFacts DEF ExpertsLoad, hand
  <2>4. /\ FileSystem(files') /\ OneKind' /\ BackupsAreOriginals' /\ VariantInv'
        /\ \A x \in Entries : Has(files', x) <=> x \notin es /\ Has(files, x)
        /\ \A b \in Dirs, n \in Names : <<b, n>> \notin es => File(b, n)' = File(b, n)
        /\ \A x \in Entries : x \in es \/ Single(files, x) => Single(files', x)
    BY <2>3, RemoveFrame DEF IInv, TypeInv
  <2>5. Common'
    BY <1>1, <2>3, <2>4 DEF Common, TypeInv, IInv
  <2>6. /\ \A s \in Shards : <<Variant, Shard(s)>> \notin es
        /\ \A n \in Names : <<Ckpt, n>> \notin es
    BY <1>3, <2>2
  <2>7. SourceSame
    BY <1>3, <2>4, <2>6 DEF SourceSame
  <2>8. Prepared'
    BY <1>1, <1>2, <1>3, <2>7, PreparedKept DEF SourceSame
  <2>9. Separate'
    BY <1>3, <2>1, <2>4, <2>6 DEF Separate, Regen
  <2>10. MtpInv'
    BY <1>4, <2>1, <2>3, <2>8, <2>9 DEF MtpInv
  <2>. QED  BY <1>1, <2>5, <2>7, <2>10, OnlyTool
<1>7. CASE ExpertsSave
  <2>1. /\ step = "save" /\ Write(Variant, Extra, mem, "read index") /\ mem \in Contents
        /\ mem = Released({"mtp"}) /\ Separate /\ (open => Has(files, <<Variant, Extra>>))
    BY <1>2, <1>7 DEF ExpertsSave, MtpInv, TypeInv
  <2>2. /\ Common' /\ Separate' /\ Prepared'
        /\ \A m \in Names : File(Ckpt, m)' = File(Ckpt, m)
        /\ File(Variant, Extra)' = IF open THEN mem ELSE Partial
        /\ Has(files', <<Variant, Extra>>)
        /\ open' = ~open /\ step' = IF open THEN "read index" ELSE step
        /\ UNCHANGED <<links, release, tool, fetched, idx, mem, todo, crashes, alone, byHand>>
    BY <1>1, <1>2, <1>3, <2>1, MtpWrite
  <2>3. MtpInv'
    <3>1. CASE open
      <4>1. ~open' /\ step' = "read index" /\ File(Variant, Extra)' = Released({"mtp"})'
        BY <1>4, <2>1, <2>2, <3>1
      <4>. QED  BY <2>2, <4>1 DEF MtpInv
    <3>2. CASE ~open
      <4>1. open' /\ step' = "save" /\ mem' = Released({"mtp"})'
        BY <1>4, <2>1, <2>2, <3>2
      <4>. QED  BY <2>2, <4>1 DEF MtpInv
    <3>. QED  BY <3>1, <3>2
  <2>. QED  BY <1>1, <2>2, <2>3, OnlyTool DEF SourceSame
<1>8. CASE MtpIndexLoad
  <2>1. /\ step = "read index" /\ ~open /\ Separate /\ Readable(Ckpt, Index)
        /\ File(Variant, Extra) = Released({"mtp"})
    BY <1>2, <1>3, <1>8, PreparedFacts DEF MtpIndexLoad, JsonLoad, MtpInv
  <2>2. /\ mem' = Released({"head", "fp8", "ngram", "mtp"}) /\ mem' \in Contents /\ step' = "index"
        /\ UNCHANGED <<links, files, release, open, idx, byHand>>
    BY <1>2, <1>3, <1>8, <2>1, PreparedFacts DEF MtpIndexLoad, JsonLoad, hand
  <2>3. /\ FileSystem(files') /\ OneKind' /\ BackupsAreOriginals' /\ VariantInv'
        /\ \A d, n : File(d, n)' = File(d, n)
    BY <2>2, SameFiles
  <2>4. Common'
    BY <1>1, <2>2, <2>3 DEF Common, TypeInv, IInv
  <2>5. SourceSame /\ Prepared'
    BY <1>1, <1>2, <2>3, PreparedKept DEF SourceSame
  <2>6. Separate'
    BY <2>1, <2>2 DEF Separate, Regen
  <2>7. MtpInv'
    BY <1>4, <2>1, <2>2, <2>3, <2>5, <2>6 DEF MtpInv
  <2>. QED  BY <1>1, <2>4, <2>5, <2>7, OnlyTool
<1>9. CASE MtpIndex
  <2>1. /\ step = "index" /\ Write(Variant, Index, mem, "read config") /\ mem \in Contents
        /\ mem = Released({"head", "fp8", "ngram", "mtp"})
        /\ Separate /\ (open => Has(files, <<Variant, Index>>))
        /\ File(Variant, Extra) = Released({"mtp"})
    BY <1>2, <1>9 DEF MtpIndex, MtpInv, TypeInv
  <2>2. /\ Common' /\ Separate' /\ Prepared'
        /\ \A m \in Names : File(Ckpt, m)' = File(Ckpt, m)
        /\ \A m \in Names : m # Index => File(Variant, m)' = File(Variant, m)
        /\ File(Variant, Index)' = IF open THEN mem ELSE Partial
        /\ Has(files', <<Variant, Index>>)
        /\ open' = ~open /\ step' = IF open THEN "read config" ELSE step
        /\ UNCHANGED <<links, release, tool, fetched, idx, mem, todo, crashes, alone, byHand>>
    BY <1>1, <1>2, <1>3, <2>1, MtpWrite
  <2>3. File(Variant, Extra)' = Released({"mtp"})'
    BY <1>3, <1>4, <2>1, <2>2
  <2>4. MtpInv'
    <3>1. CASE open
      <4>1. /\ ~open' /\ step' = "read config"
            /\ File(Variant, Index)' = Released({"head", "fp8", "ngram", "mtp"})'
        BY <1>4, <2>1, <2>2, <3>1
      <4>. QED  BY <2>2, <2>3, <4>1 DEF MtpInv
    <3>2. CASE ~open
      <4>1. open' /\ step' = "index" /\ mem' = Released({"head", "fp8", "ngram", "mtp"})'
        BY <1>4, <2>1, <2>2, <3>2
      <4>. QED  BY <2>2, <2>3, <4>1 DEF MtpInv
    <3>. QED  BY <3>1, <3>2
  <2>. QED  BY <1>1, <2>2, <2>4, OnlyTool DEF SourceSame
<1>10. CASE MtpConfigLoad
  <2>1. /\ step = "read config" /\ ~open /\ Separate
        /\ Readable(Ckpt, Config) /\ "gptq" \in File(Ckpt, Config).marks
        /\ File(Variant, Extra) = Released({"mtp"})
        /\ File(Variant, Index) = Released({"head", "fp8", "ngram", "mtp"})
    BY <1>2, <1>3, <1>10, PreparedFacts DEF MtpConfigLoad, JsonLoad, MtpInv
  <2>2. /\ mem' = Released({"gptq", "mtp"}) /\ mem' \in Contents /\ step' = "config"
        /\ UNCHANGED <<links, files, release, open, idx, byHand>>
    BY <1>2, <1>3, <1>10, <2>1, PreparedFacts DEF MtpConfigLoad, JsonLoad, hand
  <2>3. /\ FileSystem(files') /\ OneKind' /\ BackupsAreOriginals' /\ VariantInv'
        /\ \A d, n : File(d, n)' = File(d, n)
    BY <2>2, SameFiles
  <2>4. Common'
    BY <1>1, <2>2, <2>3 DEF Common, TypeInv, IInv
  <2>5. SourceSame /\ Prepared'
    BY <1>1, <1>2, <2>3, PreparedKept DEF SourceSame
  <2>6. Separate'
    BY <2>1, <2>2 DEF Separate, Regen
  <2>7. MtpInv'
    BY <1>4, <2>1, <2>2, <2>3, <2>5, <2>6 DEF MtpInv
  <2>. QED  BY <1>1, <2>4, <2>5, <2>7, OnlyTool
<1>11. CASE MtpConfig
  <2>1. /\ step = "config" /\ Write(Variant, Config, mem, "over") /\ mem \in Contents
        /\ mem = Released({"gptq", "mtp"})
        /\ Separate /\ (open => Has(files, <<Variant, Config>>))
        /\ File(Variant, Extra) = Released({"mtp"})
        /\ File(Variant, Index) = Released({"head", "fp8", "ngram", "mtp"})
    BY <1>2, <1>11 DEF MtpConfig, MtpInv, TypeInv
  <2>2. /\ Common' /\ Separate' /\ Prepared'
        /\ \A m \in Names : File(Ckpt, m)' = File(Ckpt, m)
        /\ \A m \in Names : m # Config => File(Variant, m)' = File(Variant, m)
        /\ File(Variant, Config)' = IF open THEN mem ELSE Partial
        /\ Has(files', <<Variant, Config>>)
        /\ open' = ~open /\ step' = IF open THEN "over" ELSE step
        /\ UNCHANGED <<links, release, tool, fetched, idx, mem, todo, crashes, alone, byHand>>
    BY <1>1, <1>2, <1>3, <2>1, MtpWrite
  <2>3. /\ File(Variant, Extra)' = Released({"mtp"})'
        /\ File(Variant, Index)' = Released({"head", "fp8", "ngram", "mtp"})'
    BY <1>3, <1>4, <2>1, <2>2
  <2>4. MtpInv'
    <3>1. CASE open
      <4>1. ~open' /\ step' = "over" /\ File(Variant, Config)' = Released({"gptq", "mtp"})'
        BY <1>4, <2>1, <2>2, <3>1
      <4>. QED  BY <2>2, <2>3, <4>1 DEF MtpInv
    <3>2. CASE ~open
      <4>1. open' /\ step' = "config" /\ mem' = Released({"gptq", "mtp"})'
        BY <1>4, <2>1, <2>2, <3>2
      <4>. QED  BY <2>2, <2>3, <4>1 DEF MtpInv
    <3>. QED  BY <3>1, <3>2
  <2>. QED  BY <1>1, <2>2, <2>4, OnlyTool DEF SourceSame
<1>. QED  BY <1>5, <1>6, <1>7, <1>8, <1>9, <1>10, <1>11

LEMMA OverStep ==
  ASSUME IInv, Advance
  PROVE  IInv' /\ tool # "mtp"
<1>1. /\ step = "over" /\ ~alone /\ step' = "start"
      /\ idx' = Partial /\ mem' = Partial /\ todo' = {}
      /\ UNCHANGED <<links, files, release, open, fetched, alone, byHand>>
  BY DEF Advance, Over, hand
<1>2. /\ FileSystem(files') /\ OneKind' /\ BackupsAreOriginals' /\ VariantInv'
      /\ \A d, n : File(d, n)' = File(d, n)
  BY <1>1, SameFiles
<1>3. \A ms : Released(ms)' = Released(ms)
  BY <1>1, SameReleased
<1>4. Common' <=> tool' \in Tools
  BY <1>1, <1>2, PartialType DEF Common, TypeInv, IInv
<1>5. /\ Shard(HeadShard) \in Repo /\ Index \in Repo /\ Extra \in Repo /\ Config \in Repo
      /\ \A s \in Shards : Shard(s) \in Repo /\ Shard(s) # Index
      /\ Extra # Index /\ Config # Index /\ HeadShard \in Shards
      /\ \A s \in Shards : Shard(s) # Extra /\ Shard(s) # Config
      /\ \A s, t \in Shards : Shard(s) = Shard(t) => s = t
  BY NamesAre, NameFacts
<1>6. CASE Over("download", "head")
  <2>1. tool = "download" /\ tool' = "head"
    BY <1>6 DEF Over
  <2>2. ~open /\ \A n \in Repo : File(Ckpt, n) = Released({})
    BY <1>1, <2>1 DEF IInv, DownloadInv
  <2>3. HeadInv'
    BY <1>1, <1>2, <1>3, <1>5, <2>1, <2>2 DEF HeadInv
  <2>. QED  BY <1>4, <2>1, <2>3, OnlyTool DEF Tools
<1>7. CASE Over("head", "fp8")
  <2>1. tool = "head" /\ tool' = "fp8"
    BY <1>7 DEF Over
  <2>2. /\ ~open
        /\ \A n \in Repo \ {Shard(HeadShard), Index} : File(Ckpt, n) = Released({})
        /\ \A n \in {Shard(HeadShard), Index} : File(Ckpt, n) = Released({"head"})
    BY <1>1, <2>1 DEF IInv, HeadInv
  <2>3. \A s \in Shards : File(Ckpt, Shard(s))' = Released(HeadMark(s))'
    <3>1. \A s \in Shards : File(Ckpt, Shard(s)) = Released(HeadMark(s))
      BY <1>5, <2>2 DEF HeadMark
    <3>. QED  BY <1>1, <1>2, <3>1 DEF HeadMark, Released
  <2>4. /\ \A n \in {Extra, Config} : File(Ckpt, n)' = Released({})'
        /\ File(Ckpt, Index)' = Released({"head"})'
    BY <1>2, <1>3, <1>5, <2>2
  <2>5. Fp8Inv'
    BY <1>1, <2>1, <2>2, <2>3, <2>4 DEF Fp8Inv
  <2>. QED  BY <1>4, <2>1, <2>5, OnlyTool DEF Tools
<1>8. CASE Over("fp8", "strip")
  <2>1. tool = "fp8" /\ tool' = "strip" /\ Scripted("fp8")
    BY <1>1, <1>8 DEF Over, Scripted
  <2>2. /\ ~open /\ todo = {} /\ File(Ckpt, Index) = Released({"head", "fp8"})
        /\ \A n \in {Extra, Config} : File(Ckpt, n) = Released({})
        /\ \A s \in Shards :
             File(Ckpt, Shard(s)) = Released(IF Through(s) THEN HeadMark(s) \cup {"fp8"} ELSE HeadMark(s))
    BY <1>1, <2>1 DEF IInv, Fp8Inv
  <2>3. \A s \in Shards : Through(s) <=> s \in ToSet(SideShards)
    BY <2>2 DEF Through
  <2>4. ShardsDone
    <3>1. \A s \in Shards :
            (IF Through(s) THEN HeadMark(s) \cup {"fp8"} ELSE HeadMark(s)) = HeadMark(s) \cup SideMark(s)
      BY <2>3 DEF SideMark
    <3>. QED  BY <2>2, <3>1 DEF ShardsDone
  <2>5. /\ ShardsDone' /\ \A n \in {Extra, Config} : File(Ckpt, n)' = Released({})'
        /\ File(Ckpt, Index)' = Released({"head", "fp8"})'
    BY <1>1, <1>2, <1>3, <2>2, <2>4, ShardsKept
  <2>6. StripInv'
    BY <1>1, <2>1, <2>2, <2>5 DEF StripInv
  <2>. QED  BY <1>4, <2>1, <2>6, OnlyTool DEF Tools
<1>9. CASE Over("strip", "config")
  <2>1. tool = "strip" /\ tool' = "config" /\ Scripted("strip")
    BY <1>1, <1>9 DEF Over, Scripted
  <2>2. /\ ~open /\ ShardsDone /\ File(Ckpt, Index) = Released({"head", "fp8", "ngram"})
        /\ \A n \in {Extra, Config} : File(Ckpt, n) = Released({})
    BY <1>1, <2>1 DEF IInv, StripInv
  <2>3. /\ ShardsDone' /\ \A n \in {Extra, Config} : File(Ckpt, n)' = Released({})'
        /\ File(Ckpt, Index)' = Released({"head", "fp8", "ngram"})'
    BY <1>1, <1>2, <1>3, <2>2, ShardsKept
  <2>4. ConfigInv'
    BY <1>1, <2>1, <2>2, <2>3 DEF ConfigInv
  <2>. QED  BY <1>4, <2>1, <2>4, OnlyTool DEF Tools
<1>10. CASE Over("config", "clean")
  <2>1. tool = "config" /\ tool' = "clean" /\ Scripted("config")
    BY <1>1, <1>10 DEF Over, Scripted
  <2>2. ~open /\ Prepared
    BY <1>1, <2>1 DEF IInv, ConfigInv, Prepared
  <2>3. CleanInv'
    BY <1>1, <1>2, <2>1, <2>2, PreparedKept DEF CleanInv
  <2>. QED  BY <1>4, <2>1, <2>3, OnlyTool DEF Tools
<1>11. CASE Over("clean", "mtp")
  <2>1. tool = "clean" /\ tool' = "mtp" /\ Scripted("clean")
    BY <1>1, <1>11 DEF Over, Scripted
  <2>2. ~open /\ Prepared
    BY <1>1, <2>1 DEF IInv, CleanInv
  <2>3. MtpInv'
    BY <1>1, <1>2, <2>1, <2>2, PreparedKept DEF MtpInv
  <2>. QED  BY <1>4, <2>1, <2>3, OnlyTool DEF Tools
<1>. QED  BY <1>6, <1>7, <1>8, <1>9, <1>10, <1>11 DEF Advance

LEMMA StartStep ==
  ASSUME IInv, Start
  PROVE  IInv'
<1>1. ~open
  BY DEF IInv, TypeInv, Start, MtpInv, Scripted
<1>2. /\ tool' = "download" /\ step' = "start" /\ fetched' = release /\ ~alone' /\ alone' = FALSE
      /\ idx' = Partial /\ mem' = Partial
      /\ UNCHANGED <<links, files, release, open, byHand>>
  BY DEF Start
<1>3. FileSystem(files') /\ OneKind' /\ BackupsAreOriginals' /\ VariantInv'
  BY <1>2, SameFiles
<1>4. Common'
  <2>1. release \in Nat /\ 1 <= release /\ release <= release
    BY DEF IInv, TypeInv
  <2>2. fetched' \in Nat /\ 1 <= fetched' /\ fetched' <= release'
    BY <1>2, <2>1
  <2>3. tool' \in Tools /\ alone' \in BOOLEAN /\ step' # "stopped"
    BY <1>2 DEF Tools
  <2>4. TypeInv'
    BY <1>2, <1>3, <2>2, <2>3, PartialType DEF TypeInv, IInv
  <2>. QED  BY <1>3, <2>4 DEF Common
<1>5. DownloadInv'
  BY <1>1, <1>2 DEF DownloadInv
<1>. QED  BY <1>2, <1>4, <1>5, OnlyTool

LEMMA RunByHandStep ==
  ASSUME IInv, RunByHand
  PROVE  IInv' /\ tool # "mtp"
<1>1. /\ step = "stopped" /\ ~open /\ byHand = {} /\ tool \in {"head", "fp8", "strip"} /\ tool \in ByHand
      /\ byHand' = {tool} /\ alone' = TRUE /\ step' = "start" /\ tool' = tool
      /\ idx' = Partial /\ mem' = Partial
      /\ UNCHANGED <<links, files, release, open, fetched>>
  BY ByHandAssumption DEF RunByHand, IInv, TypeInv
<1>2. \A d, n : File(d, n)' = File(d, n)
  BY <1>1, FileVal, FileValNext
<1>3. OneKind' /\ VariantInv'
  BY <1>1, <1>2, VariantKept DEF IInv, OneKind, ShardKind
<1>4. BackupsAreOriginals'
  <2>1. \A d \in Dirs, n \in Names : Backup(n, File(d, n)')
    BY <1>2, BackupsAre DEF IInv
  <2>. QED  BY <1>1, <2>1, BackupsAreNext
<1>5. Common'
  BY <1>1, <1>3, <1>4, PartialType DEF Common, TypeInv, IInv
<1>6. tool' = "head" => HeadInv'
  <2>1. \A ms : Released(ms)' = Released(ms)
    BY <1>1, SameReleased
  <2>2. ASSUME tool = "head"
        PROVE  /\ \A n \in Repo \ {Shard(HeadShard), Index} : File(Ckpt, n)' = Released({})'
               /\ \A n \in {Shard(HeadShard), Index} :
                    File(Ckpt, n)' \in {Released({})', Partial, Released({"head"})'}
    BY <1>2, <2>1, <2>2 DEF IInv, HeadInv
  <2>. QED  BY <1>1, <2>2 DEF HeadInv
<1>7. tool' = "fp8" => Fp8Inv'
  BY <1>1 DEF Fp8Inv, Scripted
<1>8. tool' = "strip" => StripInv'
  BY <1>1 DEF StripInv, Scripted
<1>. QED  BY <1>1, <1>5, <1>6, <1>7, <1>8, OnlyTool

LEMMA HandCopyStep ==
  ASSUME IInv, HandCopy
  PROVE  IInv' /\ SourceSame
<1>1. /\ links /\ tool = "mtp" /\ step = "over" /\ step' = "start" /\ ~alone
      /\ files' = {[f EXCEPT !.entries = @ \cup {<<Variant, e[2]>> : e \in @}] :
                     f \in Without(files, {Variant} \X Names)}
      /\ UNCHANGED <<links, release, tool, open, fetched, idx, mem, alone, byHand>>
  BY DEF HandCopy, memory, hand, IInv, TypeInv
<1>2. Prepared /\ ~open /\ TypeInv
  BY <1>1 DEF IInv, MtpInv, Scripted
<1>3. /\ FileSystem(files')
      /\ \A d \in Dirs, n \in Names : Has(files', <<d, n>>) <=> Has(files, <<Ckpt, n>>)
      /\ \A d \in Dirs, n \in Names : Val(files', <<d, n>>) = Val(files, <<Ckpt, n>>)
      /\ \A b, d \in Dirs, m, n \in Names :
           Tied(files', <<b, m>>, <<d, n>>) <=> Tied(files, <<Ckpt, m>>, <<Ckpt, n>>)
  BY <1>1, <1>2, CopiedFacts DEF TypeInv
<1>4. Ckpt \in Dirs /\ Variant \in Dirs
  BY NamesAre
<1>5. \A d \in Dirs, n \in Names : File(d, n)' = File(Ckpt, n)
  BY <1>3, FileVal, FileValNext
<1>6. OneKind'
  <2>. SUFFICES ASSUME NEW a \in Dirs, NEW b \in Dirs, NEW p \in Names, NEW q \in Names,
                       Tied(files', <<a, p>>, <<b, q>>)
                PROVE  p = q \/ (p \in ShardKind /\ q \in ShardKind)
    BY DEF OneKind, ShardKind
  <2>1. Tied(files, <<Ckpt, p>>, <<Ckpt, q>>)
    BY <1>3
  <2>. QED  BY <1>4, <2>1 DEF IInv, OneKind
<1>7. BackupsAreOriginals'
  <2>1. \A d \in Dirs, n \in Names : Backup(n, File(d, n)')
    BY <1>4, <1>5, BackupsAre DEF IInv
  <2>. QED  BY <1>1, <2>1, BackupsAreNext
<1>8. VariantInv'
  <2>. SUFFICES ASSUME release = 1, NEW s \in Shards
                PROVE  File(Variant, Shard(s))' = [release |-> 1, marks |-> HeadMark(s) \cup SideMark(s)]
    BY <1>1 DEF VariantInv, HeadMark, SideMark
  <2>1. fetched = 1
    BY <1>2 DEF TypeInv
  <2>2. File(Variant, Shard(s))' = File(Ckpt, Shard(s))
    BY <1>4, <1>5, NamesAre
  <2>. QED  BY <1>2, <2>1, <2>2 DEF Prepared, ShardsDone, Released
<1>9. Common'
  BY <1>1, <1>3, <1>6, <1>7, <1>8 DEF Common, TypeInv, IInv
<1>10. SourceSame
  BY <1>4, <1>5 DEF SourceSame
<1>11. Prepared'
  BY <1>1, <1>2, <1>10, PreparedKept, NamesAre DEF SourceSame
<1>12. MtpInv'
  BY <1>1, <1>2, <1>11 DEF MtpInv
<1>. QED  BY <1>1, <1>9, <1>10, <1>12, OnlyTool

LEMMA ReleaseStep ==
  ASSUME IInv, Publish \/ UNCHANGED vars
  PROVE  IInv'
<1>1. /\ release' \in {release, release + 1}
      /\ UNCHANGED <<links, files, tool, step, open, fetched, idx, mem, todo, alone, byHand>>
  BY DEF Publish, memory, hand, vars
<1>2. release \in Nat /\ release >= 1 /\ fetched \in Nat /\ fetched <= release
  BY DEF IInv, TypeInv
<1>3. TypeInv'
  <2>1. release' \in Nat /\ fetched' <= release'
    BY <1>1, <1>2
  <2>. QED  BY <1>1, <2>1 DEF IInv, TypeInv
<1>4. VariantInv'
  <2>1. CASE release' = release
    BY <1>1, <2>1, VariantKept, FileVal, FileValNext DEF IInv
  <2>2. CASE release' = release + 1
    BY <1>2, <2>2 DEF VariantInv
  <2>. QED  BY <1>1, <2>1, <2>2
<1>5. /\ \A d, n : File(d, n)' = File(d, n)
      /\ \A ms : Released(ms)' = Released(ms)
      /\ \A t : Scripted(t)' = Scripted(t)
      /\ \A e : Fresh(e)' = Fresh(e)
      /\ Current' = Current
  BY <1>1, FileVal, FileValNext, SameReleased DEF Scripted, Fresh, Current
<1>6. /\ \A d, n, c : InPlace(d, n, c)' = InPlace(d, n, c)
      /\ \A s : Through(s)' = Through(s)
      /\ ShardsDone' = ShardsDone
      /\ Separate' = Separate
  BY <1>1, <1>5 DEF InPlace, Through, ShardsDone, Separate, Regen, HeadMark, SideMark
<1>7. Prepared' = Prepared
  BY <1>5, <1>6 DEF Prepared
<1>8. OneKind' /\ BackupsAreOriginals'
  BY <1>1, <1>5 DEF IInv, OneKind, ShardKind, BackupsAreOriginals
<1>9. DownloadInv' /\ HeadInv'
  BY <1>1, <1>5, <1>6 DEF IInv, DownloadInv, HeadInv
<1>10. Fp8Inv'
  BY <1>1, <1>5, <1>6 DEF IInv, Fp8Inv, HeadMark
<1>11. StripInv'
  BY <1>1, <1>5, <1>6 DEF IInv, StripInv
<1>12. ConfigInv' /\ CleanInv'
  BY <1>1, <1>5, <1>6, <1>7 DEF IInv, ConfigInv, CleanInv
<1>13. MtpInv'
  BY <1>1, <1>5, <1>6, <1>7 DEF IInv, MtpInv, Regen
<1>. QED  BY <1>3, <1>4, <1>8, <1>9, <1>10, <1>11, <1>12, <1>13 DEF IInv

----------------------------------------------------------------------------
(* The theorems.                                                           *)

LEMMA InitInv == Init => IInv
<1>. SUFFICES ASSUME Init PROVE IInv
  OBVIOUS
<1>1. files = {} /\ \A e : ~Has(files, e)
  BY DEF Init, Has
<1>2. \A d, n : File(d, n) = Partial
  BY <1>1, FileVal, NoFile
<1>3. TypeInv /\ tool = "download" /\ step = "stopped" /\ ~open
  <2>1. FileSystem(files) /\ links \in BOOLEAN
    BY <1>1, HardLinksAssumption DEF Init, FileSystem
  <2>2. release \in Nat /\ fetched \in Nat /\ 1 <= fetched /\ fetched <= release
    BY DEF Init
  <2>3. /\ tool \in Tools /\ idx \in Contents /\ mem \in Contents
        /\ byHand \in SUBSET {"head", "fp8", "strip"}
    BY PartialType DEF Init, Tools
  <2>. QED  BY <2>1, <2>2, <2>3 DEF Init, TypeInv
<1>4. OneKind
  BY <1>1 DEF OneKind, Tied
<1>5. DownloadInv /\ HeadInv /\ ConfigInv /\ CleanInv /\ MtpInv
  BY <1>3 DEF DownloadInv, HeadInv, ConfigInv, CleanInv, MtpInv, Scripted
<1>6. Fp8Inv /\ StripInv
  BY <1>3 DEF Fp8Inv, StripInv, Scripted
<1>7. VariantInv
  BY <1>1 DEF VariantInv
<1>8. BackupsAreOriginals
  BY <1>2, PartialType DEF BackupsAreOriginals
<1>. QED  BY <1>3, <1>4, <1>5, <1>6, <1>7, <1>8 DEF IInv

LEMMA FilesSame ==
  ASSUME files' = files
  PROVE  SourceSame
BY FileVal, FileValNext DEF SourceSame

\* Making the variant leaves the checkpoint as it is.
LEMMA StepInv ==
  ASSUME IInv, [Next]_vars
  PROVE  IInv' /\ (tool = "mtp" => SourceSame)
<1>1. CASE Download
  <2>1. tool = "download"
    BY <1>1 DEF Download
  <2>. QED  BY <1>1, <2>1, DownloadStep
<1>2. CASE QuantizeHead
  <2>1. tool = "head"
    BY <1>2 DEF QuantizeHead, HeadLoad, HeadMove, HeadSave, HeadIndex
  <2>. QED  BY <1>2, <2>1, HeadStep
<1>3. CASE Fp8
  <2>1. tool = "fp8"
    BY <1>3 DEF Fp8, SideStart, SideLoad, SideMove, SideSave, SideNext, SideIndex
  <2>. QED  BY <1>3, <2>1, Fp8Step
<1>4. CASE Strip
  <2>1. tool = "strip"
    BY <1>4 DEF Strip, StripLoad, StripBackup, StripIndex
  <2>. QED  BY <1>4, <2>1, StripStep
<1>5. CASE Conf
  <2>1. tool = "config"
    BY <1>5 DEF Conf, ConfigBackup, ConfigLoad, ConfigWrite
  <2>. QED  BY <1>5, <2>1, ConfStep
<1>6. CASE CleanUp
  <2>1. tool = "clean"
    BY <1>6 DEF CleanUp
  <2>. QED  BY <1>6, <2>1, CleanStep
<1>7. CASE Mtp
  BY <1>7, LinkStep, MakeStep DEF Mtp
<1>8. CASE Advance
  BY <1>8, OverStep
<1>9. CASE HandOver
  <2>1. /\ step = "over" /\ alone /\ step' = "stopped"
        /\ UNCHANGED <<files, links, release, tool, open, fetched, idx, mem, alone, byHand>>
    BY <1>9 DEF HandOver, Stop, memory, hand
  <2>2. open \in BOOLEAN /\ tool \in {"head", "fp8", "strip"}
    BY <2>1 DEF IInv, TypeInv
  <2>3. ~open
    BY <2>1, <2>2 DEF IInv, HeadInv, Fp8Inv, StripInv
  <2>. QED  BY <2>1, <2>2, <2>3, StopKeeps, FilesSame
<1>10. CASE Start
  BY <1>10, StartStep, FilesSame DEF Start
<1>11. CASE RunByHand
  BY <1>11, RunByHandStep
<1>12. CASE HandCopy
  BY <1>12, HandCopyStep
<1>13. CASE Crash
  <2>1. /\ step' = "stopped" /\ open' = FALSE
        /\ UNCHANGED <<files, links, release, tool, fetched, idx, mem, alone, byHand>>
    BY <1>13 DEF Crash, memory, hand
  <2>. QED  BY <2>1, StopKeeps, FilesSame
<1>14. CASE Publish
  BY <1>14, ReleaseStep, FilesSame DEF Publish
<1>15. CASE UNCHANGED vars
  BY <1>15, ReleaseStep, FilesSame DEF vars
<1>. QED  BY <1>1, <1>2, <1>3, <1>4, <1>5, <1>6, <1>7, <1>8, <1>9, <1>10, <1>11, <1>12, <1>13, <1>14, <1>15
          DEF Next, Run

\* The states prepare.sh, its tools and the operator's repairs can reach.
THEOREM Invariance == Spec => []IInv
<1>1. IInv /\ [Next]_vars => IInv'
  BY StepInv
<1>. QED  BY InitInv, <1>1, PTL DEF Spec

LEMMA Finishing == IInv => FinishedMeansServable
<1>. SUFFICES ASSUME IInv, Finished
              PROVE  Servable(Ckpt) /\ (links /\ release = 1 => Servable(Variant))
  BY DEF FinishedMeansServable
<1>1. Scripted("mtp") /\ TypeInv /\ step = "over"
  BY DEF Finished, Scripted, IInv, TypeInv
<1>2. /\ Prepared
      /\ File(Variant, Extra) = Released({"mtp"})
      /\ File(Variant, Index) = Released({"head", "fp8", "ngram", "mtp"})
      /\ File(Variant, Config) = Released({"gptq", "mtp"})
      /\ \A s \in Shards : Has(files, <<Variant, Shard(s)>>)
  BY <1>1 DEF IInv, MtpInv, Separate
<1>3. ASSUME NEW s \in Shards, NEW d
      PROVE  Expected(d, Shard(s)) = HeadMark(s) \cup SideMark(s)
  <2>1. /\ Shard(s) \in ShardFiles /\ Shard(s) \notin {Extra, Index, Config}
        /\ Shard(s) = Shard(HeadShard) <=> s = HeadShard
    BY NamesAre, NameFacts
  <2>2. Shard(s)[1] = s
    BY DEF Shard
  <2>3. PICK E : E = Expected(d, Shard(s))
    OBVIOUS
  <2>4. \A m : m \in E <=> (m = "head" /\ s = HeadShard) \/ (m = "fp8" /\ s \in ToSet(SideShards))
    BY <2>1, <2>2, <2>3 DEF Expected
  <2>5. \A m : m \in HeadMark(s) \cup SideMark(s) <=>
                 (m = "head" /\ s = HeadShard) \/ (m = "fp8" /\ s \in ToSet(SideShards))
    BY DEF HeadMark, SideMark
  <2>6. E = HeadMark(s) \cup SideMark(s)
    BY <2>4, <2>5
  <2>. QED  BY <2>3, <2>6
<1>4. /\ Expected(Ckpt, Index) = {"head", "fp8", "ngram"} /\ Expected(Ckpt, Config) = {"gptq"}
      /\ Expected(Ckpt, Extra) = {}
      /\ Expected(Variant, Index) = {"head", "fp8", "ngram", "mtp"}
      /\ Expected(Variant, Config) = {"gptq", "mtp"} /\ Expected(Variant, Extra) = {"mtp"}
  BY NamesAre, NameFacts DEF Expected
<1>5. \A n \in Repo : (\E s \in Shards : n = Shard(s)) \/ n \in {Extra, Index, Config}
  BY DEF Repo, ShardFiles
<1>6. Servable(Ckpt)
  BY <1>2, <1>3, <1>4, <1>5 DEF Servable, Prepared, ShardsDone, Released
<1>7. ASSUME links, release = 1 PROVE Servable(Variant)
  <2>1. fetched = 1
    BY <1>1, <1>7 DEF TypeInv
  <2>2. \A s \in Shards : File(Variant, Shard(s)) = [release |-> 1, marks |-> HeadMark(s) \cup SideMark(s)]
    BY <1>2, <1>7 DEF IInv, VariantInv
  <2>. QED  BY <1>2, <1>3, <1>4, <1>5, <2>1, <2>2 DEF Servable, Released
<1>. QED  BY <1>6, <1>7

\* Whatever interrupted the script, wherever and how often, and whatever tool was run
\* by hand: when it says it is done every file of the checkpoint is whole, converted
\* exactly once and of one release; so is the variant's, with hard links and unless
\* upstream published again.
THEOREM DoneMeansServable == Spec => []FinishedMeansServable
BY Invariance, Finishing, PTL

\* The backups the tools leave are what they say they are.
THEOREM BackupsKept == Spec => []BackupsAreOriginals
<1>1. IInv => BackupsAreOriginals
  BY DEF IInv
<1>. QED  BY <1>1, Invariance, PTL

\* The tool that makes the variant never edits the checkpoint.
THEOREM CheckpointUntouched == Spec => SourceUntouchedByVariant
<1>1. IInv /\ [Next]_vars => [tool = "mtp" => \A n \in Names : (File(Ckpt, n))' = File(Ckpt, n)]_vars
  BY StepInv DEF SourceSame
<1>. QED  BY <1>1, Invariance, PTL DEF Spec, SourceUntouchedByVariant
=============================================================================
