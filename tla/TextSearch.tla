----------------------------- MODULE TextSearch -----------------------------
(***************************************************************************)
(* The search for drugs by name: two indexes side by side.  One is in      *)
(* memory and built anew at every start; the other, tantivy's, is on disk, *)
(* shows what was committed only, and commits an addition not at once but  *)
(* with a later change.  An answer puts the results of both together, half *)
(* a page of each, as long as there are any.                               *)
(*                                                                         *)
(* A name is a set of words.  Names that change and queries are put into   *)
(* small letters and without ё; a start loads the names as they are.       *)
(***************************************************************************)
EXTENDS Integers, FiniteSetsExt, SequencesExt

CONSTANTS
  Drugs,     \* documents of the context "drugs"
  Words,     \* words of names and queries
  Plain,     \* Plain[w]: the word w as it is indexed and searched for
  PageSizes  \* sizes of pages that clients ask for

NoName == {}
Names  == (SUBSET Words) \ {NoName}

ASSUME TextSearchAssumption ==
  /\ PageSizes \subseteq {n \in Nat : n % 2 = 0 /\ n > 0}
  /\ Plain \in [Words -> Words] /\ \A w \in Words : Plain[Plain[w]] = Plain[w]

VARIABLES
  sim,       \* the index in memory: sim[d], its name for drug d, or NoName
  pending,   \* additions to tantivy's index not committed
  committed  \* its contents as searches see them; both are sequences of entries

index == <<sim, pending, committed>>

IndexInit ==
  /\ sim = [d \in Drugs |-> NoName]
  /\ pending = <<>>
  /\ committed = <<>>

(***************************************************************************)
(* Changes.                                                                *)
(***************************************************************************)

(* to_lowercase and the replacement of ё. *)
Plainly(name) == {Plain[w] : w \in name}

Entry(d, name) == [drug |-> d, name |-> name]

(* commit_helper: an addition is committed only if others wait already and *)
(* the last commit is a second ago; 500 of them are out of bounds here.    *)
Add(waiting, visible, entry) ==
  \/ /\ waiting # <<>>
     /\ committed' = visible \o Append(waiting, entry)
     /\ pending' = <<>>
  \/ /\ committed' = visible
     /\ pending' = Append(waiting, entry)

CreateName(d, name) ==
  /\ sim' = [sim EXCEPT ![d] = Plainly(name)]
  /\ Add(pending, committed, Entry(d, Plainly(name)))

(* The term to delete is the whole uuid, the indexed terms are its parts   *)
(* between the hyphens: nothing is deleted.  What waits is committed.      *)
Deleted(visible, d) == visible

DeleteName(d) ==
  /\ sim' = [sim EXCEPT ![d] = NoName]
  /\ committed' = Deleted(committed \o pending, d)
  /\ pending' = <<>>

ChangeName(d, name) ==
  /\ sim' = [sim EXCEPT ![d] = Plainly(name)]
  /\ Add(<<>>, Deleted(committed \o pending, d), Entry(d, Plainly(name)))

(* Mutant: the first name is left to the next start. *)
NameChanged_FirstLater(d, before, after) ==
  IF before = NoName \/ before = after THEN UNCHANGED index
  ELSE IF after = NoName THEN DeleteName(d) ELSE ChangeName(d, after)

(* handle_mutation: the index follows the name of a drug. *)
NameChanged(d, before, after) ==
  IF before = after THEN UNCHANGED index
  ELSE IF before = NoName THEN CreateName(d, after)
  ELSE IF after = NoName THEN DeleteName(d) ELSE ChangeName(d, after)

(* A start: what was not committed is gone, the index in memory is loaded  *)
(* from the documents, the names as they stand there.                      *)
Load(name) ==
  /\ sim' = name
  /\ pending' = <<>>
  /\ UNCHANGED committed

(***************************************************************************)
(* Searches.                                                               *)
(***************************************************************************)

Queries == {Plainly(n) : n \in Names}

Hits(entries, fit) ==
  LET hits == SelectSeq(entries, LAMBDA e : e.name \in fit)
  IN  [i \in DOMAIN hits |-> hits[i].drug]

RemoveDuplicates(found, others) ==
  SelectSeq(found, LAMBDA d : d \notin ToSet(others))

(* What tantivy finds: any of the words; then the whole phrase. *)
FoundByWord(q) ==
  LET full == Hits(committed, {n \in Names : q \subseteq n})
  IN  RemoveDuplicates(Hits(committed, {n \in Names : n \cap q # {}}), full) \o full

FoundAlike(q) ==
  RemoveDuplicates(SetToSeq({d \in Drugs : sim[d] \cap q # {}}), FoundByWord(q))

Slice(s, skip, take) == SubSeq(s, skip + 1, Min({skip + take, Len(s)}))

(* Mutant: the page on which one list ends takes half a page of the other. *)
Page_HalfOnly(tan, alike, size, number) ==
  LET half == size \div 2
  IN  Slice(tan, number * half, half) \o Slice(alike, number * half, half)

(* The page with the given number.  While both lists have half a page      *)
(* left, half of each; then the rest of the shorter one, filled up from    *)
(* the longer; then the longer one alone.                                  *)
Page(tan, alike, size, number) ==
  LET half  == size \div 2
      ends  == Min({Len(tan) \div half, Len(alike) \div half})
      tanEnds == ends = Len(tan) \div half
      short == IF tanEnds THEN tan ELSE alike
      long  == IF tanEnds THEN alike ELSE tan
      rest  == Len(short) - ends * half
  IN  IF number > (Len(tan) + Len(alike)) \div size + 1 THEN <<>>
      ELSE IF number < ends
           THEN Slice(tan, number * half, half) \o Slice(alike, number * half, half)
      ELSE IF number = ends
           THEN LET last == Slice(short, number * half, rest)
                    fill == Slice(long, number * half, size - rest)
                IN  IF tanEnds THEN last \o fill ELSE fill \o last
      ELSE Slice(long, ends * half + (size - rest) + size * (number - ends - 1), size)

(* search: the page that holds the offset. *)
Search(q, size, offset) == Page(FoundByWord(q), FoundAlike(q), size, offset \div size)

AllPages(q, size) ==
  LET total == Len(FoundByWord(q) \o FoundAlike(q))
  IN  FlattenSeq([n \in 1 .. total \div size + 2 |-> Search(q, size, (n - 1) * size)])

(***************************************************************************)
(* Properties.                                                             *)
(***************************************************************************)

(* A client that asks for page after page of an even size gets every       *)
(* result exactly as often as it was found, however the two lists are      *)
(* interleaved, and no page but the last has room left.                    *)
PagesShowAll ==
  \A q \in Queries, size \in PageSizes :
    LET found == FoundByWord(q) \o FoundAlike(q)
    IN  /\ ToBag(AllPages(q, size)) = ToBag(found)
        /\ \A n \in 0 .. Len(found) \div size - 1 : Len(Search(q, size, n * size)) = size
=============================================================================
