---------------------------- MODULE MCCommitStore ----------------------------
(***************************************************************************)
(* CommitStore on six proposals: two rivals for the first event under      *)
(* different keys (a, b), a changed redelivery of a's key (x), successors  *)
(* of each rival that reuse the key k2 of b (c, d), and a third event (e). *)
(* A hash is the pair of its event's sequence number and its proposal's    *)
(* name.  A behaviour is of two workers, or of a worker and a reader,      *)
(* which is enough to tear a snapshot because the write lock lets only one *)
(* change the file at a time.                                              *)
(***************************************************************************)
EXTENDS CommitSnapshot

VARIABLE reading    \* whether this behaviour has a reader

MCHash(n, p) == <<n, p.id>>

MCGenesis == <<0, "genesis">>

P(id, key, parent) == [id |-> id, key |-> key, parent |-> parent]

MCProposal ==
    {P("a", "k1", MCGenesis), P("x", "k1", MCGenesis), P("b", "k2", MCGenesis),
     P("c", "k2", <<1, "a">>), P("d", "k2", <<1, "b">>), P("e", "k3", <<2, "c">>)}

MCKey == {"k1", "k2", "k3"}

MCHashes == {MCGenesis} \cup ((1..MaxEvents) \X {"a", "x", "b", "c", "d", "e"})

Present(w) == reading => w = CHOOSE v \in Worker : TRUE

MCInit == SnapInit /\ reading \in BOOLEAN

MCNext ==
    /\ UNCHANGED reading
    /\ \/ ~reading /\ Next /\ UNCHANGED snap
       \/ reading /\ SnapNext /\ \A w \in Worker : Present(w) \/ pc'[w] = pc[w]

MCSpec ==
    /\ MCInit /\ [][MCNext]_<<snapVars, reading>>
    /\ \A w \in Worker : WF_vars(Present(w) /\ Progress(w))

=============================================================================
