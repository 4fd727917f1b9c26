----------------------------- MODULE MCAssetTable -----------------------------
(***************************************************************************)
(* Instances of AssetTable for TLC. A behaviour has either uploads, with   *)
(* the requests that make assets of them and delete these, or the requests *)
(* about the table: the two meet in the file of an asset alone.            *)
(***************************************************************************)
EXTENDS AssetTable

CONSTANTS a1, b1, n1

\* A file of two chunks, and a shorter one.
TwoFiles == [long |-> 2, short |-> 1]

\* Positions from either end.
Signed == {-1, 0, 1}

\* The assets of the beginning are interchangeable.
OldSymmetry == Permutations(Old)

Uploading == \E s \in Sessions : client[s].attempts > 0

One == CHOOSE r \in Threads : TRUE

UploadsAlone ==
  Uploading =>
    /\ window = Ids
    /\ \A r \in Threads \ {One} : request[r] = Waiting
    /\ LET q == request[One] IN
       \/ q = Waiting
       \/ q.kind = "delete" /\ \A row \in ToSet(q.doomed) : row.id \in New
       \/ q.kind = "createUpload" /\ q.row.order = 0

UploadsFirst == ~Uploading /\ Uploading' => count = 0 /\ flips = 0

=============================================================================
