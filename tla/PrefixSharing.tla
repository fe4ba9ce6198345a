----------------------------- MODULE PrefixSharing -----------------------------
(***************************************************************************)
(* What prefix reuse promises the sequences of a worker: the pages of a    *)
(* sequence hold its own prefix, in order, and keep doing so until it      *)
(* gives them up.  Nothing is said of free lists, reference counts,        *)
(* hashes or indexes; KvCache implements this.                             *)
(***************************************************************************)
EXTENDS Naturals, Sequences, SequencesExt

CONSTANTS
  Seqs,     \* sequences
  Blocks,   \* KV pages
  Text,     \* what each sequence keeps in its pages, in order
  Blank     \* what a page holds that was never written

VARIABLES
  pages,    \* the pages of each sequence
  content   \* what each page holds

Owned == UNION {ToSet(pages[s]) : s \in Seqs}

Init ==
  /\ pages = [s \in Seqs |-> <<>>]
  /\ content = [b \in Blocks |-> Blank]

(* A sequence finds the beginning of its text in pages others have filled. *)
Match(s) ==
  /\ pages[s] = <<>>
  /\ pages' = [pages EXCEPT ![s] = pages'[s]]
  /\ Len(pages'[s]) <= Len(Text[s])
  /\ \A i \in DOMAIN pages'[s] : content[pages'[s][i]] = Text[s][i]
  /\ UNCHANGED content

(* It writes the rest of its text to pages nobody has.                     *)
Fill(s) ==
  LET new == ToSet(pages'[s]) \ ToSet(pages[s])
  IN /\ pages' = [pages EXCEPT ![s] = pages'[s]]
     /\ IsPrefix(pages[s], pages'[s])
     /\ Len(pages'[s]) = Len(Text[s])
     /\ \A i, j \in DOMAIN pages'[s] : pages'[s][i] = pages'[s][j] => i = j
     /\ new \cap Owned = {}
     /\ \A b \in Blocks \ new : content'[b] = content[b]
     /\ \A i \in DOMAIN pages'[s] : content'[pages'[s][i]] = Text[s][i]

(* It takes all the pages of a sequence with the same text.                *)
Fork(s, t) ==
  /\ pages[s] = <<>>
  /\ Text[s] = Text[t]
  /\ pages' = [pages EXCEPT ![s] = pages[t]]
  /\ UNCHANGED content

Drop(s) ==
  /\ pages' = [pages EXCEPT ![s] = <<>>]
  /\ UNCHANGED content

Next ==
  \E s \in Seqs : Match(s) \/ Fill(s) \/ Drop(s)
                  \/ \E t \in Seqs : Fork(s, t)

Spec == Init /\ [][Next]_<<pages, content>>
===============================================================================
