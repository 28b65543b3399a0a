------------------------------ MODULE MerkleTrees ------------------------------
(***************************************************************************)
(* The two trees of the harness: the promoted tree of manifest indexes and *)
(* batches, in which a node without a sibling moves up unchanged, and the  *)
(* RFC 6962 tree of anchors.  A hash is the tuple of what is hashed, so    *)
(* that it determines its argument and nothing else.                       *)
(***************************************************************************)
EXTENDS Faults

Leaf(x) == <<"leaf", x>>
Node(left, right) == <<"node", left, right>>
EmptyTree == <<"empty">>

\* A hash of nothing that is in a tree.
Flipped == <<"flipped">>

Half(n) == n \div 2
RoundedHalf(n) == (n + 1) \div 2
Odd(n) == n % 2 = 1

-----------------------------------------------------------------------------
\* The promoted tree

PromotedLevel(level) ==
    [i \in 1 .. RoundedHalf(Len(level)) |->
        IF 2 * i <= Len(level) THEN Node(level[2 * i - 1], level[2 * i]) ELSE level[2 * i - 1]] \o <<>>

PromotedRoot(leaves) == Loop(Len(leaves), PromotedLevel, leaves)[1]

\* position is counted from 0, as in the source.
PromotedProof(leaves, position) ==
    LET Rise(s) ==
            LET sibling == IF Odd(s.position) THEN s.position - 1 ELSE s.position + 1
            IN [level |-> PromotedLevel(s.level), position |-> Half(s.position),
                path |-> s.path \o (IF sibling \in 0 .. Len(s.level) - 1 THEN <<s.level[sibling + 1]>> ELSE <<>>)]
    IN Loop(Len(leaves), Rise, [level |-> leaves, position |-> position, path |-> <<>>]).path

\* A node that is not the last of an odd level has a sibling.
Paired(position, width) == Odd(position) \/ position + 1 < width

ExpectedPromotedSiblings(position, width) ==
    LET Rise(s) ==
            IF s.width <= 1 THEN s
            ELSE [position |-> Half(s.position), width |-> RoundedHalf(s.width),
                  count |-> s.count + (IF Paired(s.position, s.width) THEN 1 ELSE 0)]
    IN Loop(width, Rise, [position |-> position, width |-> width, count |-> 0]).count

\* One level up: it stays where it is at the root, and where a sibling is missing.
PromotedRise(s) ==
    LET paired == Paired(s.position, s.width)
    IN IF s.width <= 1 \/ (paired /\ s.siblings = <<>>) THEN s
       ELSE [digest |-> IF ~paired THEN s.digest
                        ELSE IF Odd(s.position) THEN Node(Head(s.siblings), s.digest)
                        ELSE Node(s.digest, Head(s.siblings)),
             position |-> Half(s.position), width |-> RoundedHalf(s.width),
             siblings |-> IF paired THEN Tail(s.siblings) ELSE s.siblings]

\* Mutant: the root is not compared with the signed one.
VerifyPromotedProofOfAny(leaf, index, treeSize, siblings, root) ==
    LET top == Loop(treeSize, PromotedRise,
                    [digest |-> leaf, position |-> index, width |-> treeSize, siblings |-> siblings])
    IN top.width <= 1 /\ top.siblings = <<>>

VerifyPromotedProof(leaf, index, treeSize, siblings, root) ==
    LET top == Loop(treeSize, PromotedRise,
                    [digest |-> leaf, position |-> index, width |-> treeSize, siblings |-> siblings])
    IN top.width <= 1 /\ top.siblings = <<>> /\ top.digest = root

-----------------------------------------------------------------------------
\* The RFC 6962 tree. The shifts and masks of the code are those of a 32-bit integer; here
\* they halve any integer, which is the same for the sizes up to 2^31.

LargestPowerOfTwoLessThan(value) ==
    LET Doubled(power) == IF power * 2 < value THEN power * 2 ELSE power
    IN Loop(value, Doubled, 1)

\* A part of a tree is its first leaf, counted from 0, and how many there are.
Parts(leaves) == {part \in (0 .. Len(leaves)) \X (0 .. Len(leaves)) : part[1] + part[2] <= Len(leaves)}

RfcRoot(leaves) ==
    LET root[part \in Parts(leaves)] ==
            LET from == part[1]
                n == part[2]
                split == LargestPowerOfTwoLessThan(n)
            IN IF n = 0 THEN EmptyTree
               ELSE IF n = 1 THEN leaves[from + 1]
               ELSE Node(root[<<from, split>>], root[<<from + split, n - split>>])
    IN root[<<0, Len(leaves)>>]

RfcInclusionProof(leaves, index) ==
    LET Part(from, n) == RfcRoot(SubSeq(leaves, from + 1, from + n))
        path[from \in 0 .. Len(leaves), n \in 0 .. Len(leaves)] ==
            IF n = 1 THEN <<>>
            ELSE LET split == LargestPowerOfTwoLessThan(n)
                 IN IF index < from + split
                    THEN path[from, split] \o <<Part(from + split, n - split)>>
                    ELSE path[from + split, n - split] \o <<Part(from, split)>>
    IN path[0, Len(leaves)]

\* while ((fn & 1) === 0 && fn !== 0) { fn >>= 1; sn >>= 1; }
SkipZeros(fn, sn) ==
    LET Shift(n) == IF ~Odd(n[1]) /\ n[1] # 0 THEN <<Half(n[1]), Half(n[2])>> ELSE n
    IN Loop(fn, Shift, <<fn, sn>>)

\* One sibling of an inclusion proof.
RfcRise(s) ==
    LET n == IF Odd(s.fn) \/ s.fn = s.sn THEN SkipZeros(s.fn, s.sn) ELSE <<s.fn, s.sn>>
    IN [digest |-> IF Odd(s.fn) \/ s.fn = s.sn THEN Node(Head(s.proof), s.digest)
                   ELSE Node(s.digest, Head(s.proof)),
        fn |-> Half(n[1]), sn |-> Half(n[2]), proof |-> Tail(s.proof)]

RfcClimb(leaf, index, treeSize, proof) ==
    Loop(Len(proof), RfcRise, [digest |-> leaf, fn |-> index, sn |-> treeSize - 1, proof |-> proof])

VerifyRfcInclusion(leaf, index, treeSize, proof, root) ==
    LET top == RfcClimb(leaf, index, treeSize, proof) IN top.sn = 0 /\ top.digest = root

Grown(old, new, fn, sn, path) == [old |-> old, new |-> new, fn |-> fn, sn |-> sn, path |-> path]

\* One digest of a consistency path: the old and the new root grow together; they stay as
\* they are at its end, and where it is too long.
RfcGrow(s) ==
    LET right == Odd(s.fn) \/ s.fn = s.sn
        n == IF right THEN SkipZeros(s.fn, s.sn) ELSE <<s.fn, s.sn>>
    IN IF s.sn = 0 \/ s.path = <<>> THEN s
       ELSE Grown(IF right THEN Node(Head(s.path), s.old) ELSE s.old,
                  IF right THEN Node(Head(s.path), s.new) ELSE Node(s.new, Head(s.path)),
                  Half(n[1]), Half(n[2]), Tail(s.path))

\* while ((fn & 1) === 1) { fn >>= 1; sn >>= 1; }
SkipOnes(fn, sn) ==
    LET Shift(n) == IF Odd(n[1]) THEN <<Half(n[1]), Half(n[2])>> ELSE n
    IN Loop(fn, Shift, <<fn, sn>>)

\* Where the path of a consistency proof ends: it starts from the old root, or if that is
\* not a node of the new tree from the first digest of the path.
RfcGrown(oldSize, newSize, oldRoot, path) ==
    LET n == SkipOnes(oldSize - 1, newSize - 1)
        from == IF n[1] = 0 THEN oldRoot ELSE Head(path)
    IN Loop(Len(path), RfcGrow,
            Grown(from, from, n[1], n[2], IF n[1] = 0 THEN path ELSE Tail(path)))

\* Mutant: only the new root is compared.
VerifyRfcConsistencyNewRoot(oldSize, newSize, oldRoot, newRoot, path) ==
    /\ oldSize > 0 /\ newSize >= oldSize
    /\ IF oldSize = newSize THEN path = <<>> /\ oldRoot = newRoot
       ELSE LET end == RfcGrown(oldSize, newSize, oldRoot, path)
            IN path # <<>> /\ end.path = <<>> /\ end.sn = 0 /\ end.new = newRoot

VerifyRfcConsistency(oldSize, newSize, oldRoot, newRoot, path) ==
    /\ oldSize > 0 /\ newSize >= oldSize
    /\ IF oldSize = newSize THEN path = <<>> /\ oldRoot = newRoot
       ELSE LET end == RfcGrown(oldSize, newSize, oldRoot, path)
            IN path # <<>> /\ end.path = <<>> /\ end.sn = 0 /\ end.old = oldRoot /\ end.new = newRoot
=============================================================================
