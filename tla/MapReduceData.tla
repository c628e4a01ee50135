--------------------------- MODULE MapReduceData ---------------------------
(***************************************************************************)
(* What a job of src/mit6.824/src/mapreduce computes: Sequential() with    *)
(* doMap, doReduce and merge, and the map and reduce functions of main/wc  *)
(* (word count) and main/ii (inverted index).  A word is a number, a file  *)
(* the sequence of its words, a document the number of its file.  Go gives *)
(* the keys of a map in any order, and sort.Slice leaves pairs with equal  *)
(* keys in any order.                                                      *)
(***************************************************************************)
EXTENDS Integers, Sequences, FiniteSets, SequencesExt

CONSTANTS
  Words,     \* numbers
  NFiles, NReduce,
  MaxWords   \* bound: words of a file

ASSUME DataAssumption == Words \subseteq Nat /\ NFiles \in Nat \ {0} /\ NReduce \in Nat \ {0}

VARIABLES
  app,     \* "wc" or "ii"
  input,   \* the files
  hash,    \* ihash(key) % nReduce
  task,    \* the next task: the map tasks 1..NFiles, then the reduce tasks
  inter,   \* intermediate files: inter[m][r] is a sequence of key/value pairs
  out,     \* outputs of the reduce tasks, NoFile when there is none
  status,  \* "running", "done" or "fatal"
  merged   \* the output: a value for each key

vars == <<app, input, hash, task, inter, out, status, merged>>

Files == 1..NFiles
Parts == 1..NReduce
NoFile == <<>>  \* doReduce creates no file that is empty

Count(s, w) == Cardinality({p \in DOMAIN s : s[p] = w})

\* mapF of wc.go: a pair for each word of file m, with its count.
wcMapF(m) == {[key |-> w, value |-> Count(input[m], w)] : w \in Range(input[m])}
\* mapF of ii.go: a pair for each word of file m, with the document.
iiMapF(m) == {[key |-> w, value |-> m] : w \in Range(input[m])}

mapF(m) == IF app = "wc" THEN wcMapF(m) ELSE iiMapF(m)

\* reduceF of wc.go: the sum of the values.
wcReduceF(values) == FoldLeft(LAMBDA a, b : a + b, 0, values)
\* reduceF of ii.go: how many values there are, and the values sorted.
iiReduceF(values) == [n |-> Len(values), documents |-> SortSeq(values, <)]

reduceF(values) == IF app = "wc" THEN wcReduceF(values) ELSE iiReduceF(values)

Init ==
  /\ app \in {"wc", "ii"}
  /\ input \in [Files -> BoundedSeq(Words, MaxWords)]
  /\ hash \in [Words -> Parts]
  /\ task = 1
  /\ inter = [m \in Files |-> [r \in Parts |-> <<>>]]
  /\ out = [r \in Parts |-> NoFile]
  /\ status = "running"
  /\ merged = <<>>

Partition(kvs, r) == SelectSeq(kvs, LAMBDA kv : hash[kv.key] = r)

\* Each pair goes to the file of the reduce task that its key hashes to.
doMap ==
  /\ task \in Files
  /\ \E kvs \in SetToSeqs(mapF(task)) :
       inter' = [inter EXCEPT ![task] = [r \in Parts |-> Partition(kvs, r)]]
  /\ task' = task + 1
  /\ UNCHANGED <<app, input, hash, out, status, merged>>

\* sort.Slice by key
Sorted(kvs) ==
  {s \in {[i \in DOMAIN kvs |-> kvs[p[i]]] : p \in {q \in [DOMAIN kvs -> DOMAIN kvs] : Range(q) = DOMAIN kvs}} :
     \A i, j \in DOMAIN s : i < j => s[i].key <= s[j].key}

\* Faulty variant of Grouped: values is not reset when the key changes.
GroupedOn(acc, kv) ==
  IF acc.key = kv.key THEN [acc EXCEPT !.values = Append(@, kv.value)]
  ELSE [key |-> kv.key, values |-> Append(acc.values, kv.value),
        out |-> Append(acc.out, [key |-> acc.key, value |-> reduceF(acc.values)])]

\* One turn of the loop that calls reduceF once per distinct key.
Grouped(acc, kv) ==
  IF acc.key = kv.key THEN [acc EXCEPT !.values = Append(@, kv.value)]
  ELSE [key |-> kv.key, values |-> <<kv.value>>,
        out |-> Append(acc.out, [key |-> acc.key, value |-> reduceF(acc.values)])]

\* What doReduce writes for the sorted pairs s.
Reduced(s) ==
  LET last == FoldLeft(Grouped, [key |-> s[1].key, values |-> <<>>, out |-> <<>>], s)
  IN Append(last.out, [key |-> last.key, value |-> reduceF(last.values)])

\* No file is created when there is no pair.
doReduce ==
  LET r == task - NFiles
      kvs == FlattenSeq([m \in Files |-> inter[m][r]])
  IN
  /\ r \in Parts
  /\ \/ kvs = <<>> /\ UNCHANGED out
     \/ kvs # <<>> /\ \E s \in Sorted(kvs) : out' = [out EXCEPT ![r] = Reduced(s)]
  /\ task' = task + 1
  /\ UNCHANGED <<app, input, hash, inter, status, merged>>

LastOf(kvs, k) ==
  CHOOSE p \in DOMAIN kvs : kvs[p].key = k /\ \A q \in DOMAIN kvs : kvs[q].key = k => q <= p

\* The pairs of all outputs in turn: a later value of a key replaces an earlier one.
merge ==
  LET kvs == FlattenSeq(out) IN
  /\ task = NFiles + NReduce + 1
  /\ status = "running"
  /\ \/ /\ \E r \in Parts : out[r] = NoFile
        /\ status' = "fatal"
        /\ UNCHANGED merged
     \/ /\ \A r \in Parts : out[r] # NoFile
        /\ status' = "done"
        /\ merged' = [k \in {kvs[p].key : p \in DOMAIN kvs} |-> kvs[LastOf(kvs, k)].value]
  /\ UNCHANGED <<app, input, hash, task, inter, out>>

Next == doMap \/ doReduce \/ merge

Spec == Init /\ [][Next]_vars

-----------------------------------------------------------------------------
(* Properties *)

Occurring == UNION {Range(input[m]) : m \in Files}
Documents(w) == {m \in Files : w \in Range(input[m])}

\* The output that the job promises: for each word of the input, how often it
\* occurs, or how many and which documents it occurs in.
Reference ==
  [w \in Occurring |->
     IF app = "wc" THEN Count(FlattenSeq(input), w)
     ELSE [n |-> Cardinality(Documents(w)), documents |-> SetToSortSeq(Documents(w), <)]]

\* The merged output is the promised one, for every hash function and every order
\* in which pairs come (common_map.go, common_reduce.go, master_splitmerge.go).
OutputIsReference == status = "done" => merged = Reference
=============================================================================
