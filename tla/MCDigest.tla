------------------------------ MODULE MCDigest ------------------------------
(* A small instance of Digest for TLC. *)
EXTENDS Digest

Short == [length |-> 1, spaces |-> {}, stops |-> {}, plain |-> 1]

Plain == [tier |-> 1, preferred |-> None, channels |-> {}, excluded |-> {}, urgent |-> FALSE,
          hashed |-> FALSE, tracked |-> FALSE, overhead |-> 0, asciiHead |-> TRUE,
          text |-> Short]

\* Every way to ask for channels, with none, one or all of them excluded.
Asked == {[Plain EXCEPT !.tier = t, !.preferred = p, !.channels = cs, !.excluded = x,
                        !.urgent = u] :
            t \in {0, 1}, p \in Channels \cup {None}, cs \in SUBSET Channels,
            x \in {y \in SUBSET Channels : Cardinality(y) # 2}, u \in BOOLEAN}

\* Jobs with and without a walletHash, tracked or not.
Addressed == {[Plain EXCEPT !.hashed = h, !.tracked = t] : h \in BOOLEAN, t \in BOOLEAN}

\* Texts with at most one blank and one full stop, ASCII throughout, up to the
\* middle or not at all, under a header that is ASCII or not.
Spots(n) == {{}} \cup {{i} : i \in 0..n - 1}
Worded ==
  UNION {{[Plain EXCEPT !.text = [length |-> n, spaces |-> s, stops |-> p, plain |-> a],
                        !.overhead = o, !.asciiHead = h] :
            s \in Spots(n), p \in Spots(n), a \in {0, n \div 2, n}, h \in BOOLEAN,
            o \in 0..SingleGsm + 1} :
         n \in 0..SingleGsm + 1}

DirectJobs ==
       {<<h, o>> : h \in SUBSET Channels,
                   o \in {q \in Asked : q.preferred = None \/ Cardinality(q.channels) = 1}}
  \cup {<<Channels, o>> : o \in Addressed}
  \cup {<<{"sms"}, o>> : o \in Worded}

\* An entry that two processes flush; and two entries that one process
\* flushes, of a wallet without a channel.
OneOf(S) == {CHOOSE x \in S : TRUE}
BufferScenes ==
  {<<OneOf(Entries), Processes, {"email"}>>, <<Entries, OneOf(Processes), {}>>}
=============================================================================
