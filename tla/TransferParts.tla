--------------------------- MODULE TransferParts ---------------------------
(***************************************************************************)
(* The arithmetic that cuts a file into the parts of a multipart upload    *)
(* and an object into the chunks of a ranged download.  Byte offsets are   *)
(* 0-based and ranges are half open, part numbers are 1-based, as in       *)
(* objectstorage/mpupload.go and objectstorage/mpdownload.go.              *)
(***************************************************************************)
EXTENDS Integers

CONSTANTS
    MinPartSize,   \* minPartSize: S3's floor for every part but the last
    MaxParts       \* maxParts: S3's ceiling on the parts of one upload

ASSUME PartLimits ==
    /\ MinPartSize \in Nat \ {0}
    /\ MaxParts \in Nat \ {0}

Least(a, b) == IF a <= b THEN a ELSE b
\* The floor is not applied to the request.
RequestAsGiven(a, b) == a
Greatest(a, b) == IF a >= b THEN a ELSE b

CeilDiv(a, b) == (a + b - 1) \div b

\* The parts a file needs at a part size, before any ceiling applies.
Fits(fileSize, partSize) == CeilDiv(fileSize, partSize) <= MaxParts

\* The part sizes that the loop goes through.
doublings(base) == LET size[k \in Nat] == IF k = 0 THEN base ELSE 2 * size[k - 1] IN size

\* The part size an upload uses: the request raised to the floor, then doubled
\* until the file fits in MaxParts parts.  PartPlan checks the loop of the code
\* against this closed form.
computePartSize(fileSize, requested) ==
    LET size == doublings(Greatest(requested, MinPartSize))
        k == CHOOSE k \in 0 .. fileSize :
                /\ Fits(fileSize, size[k])
                /\ \A j \in 0 .. k - 1 : ~ Fits(fileSize, size[j])
    IN  size[k]

\* Only the whole parts are counted, and the bytes after the last of them cut off.
numPartsRoundedDown(fileSize, partSize) ==
    IF fileSize < partSize THEN 1 ELSE Least(MaxParts, fileSize \div partSize)
numParts(fileSize, partSize) ==
    IF fileSize = 0
    THEN 1
    ELSE Least(MaxParts,
               (fileSize \div partSize) +
               (IF fileSize % partSize # 0 THEN 1 ELSE 0))

partStart(n, partSize) == (n - 1) * partSize
partEnd(n, fileSize, partSize) == Least(partStart(n, partSize) + partSize, fileSize)

\* The download side has no ceiling and counts no chunk for an empty object.
numChunks(total, partSize) ==
    IF total <= 0
    THEN 0
    ELSE (total \div partSize) + (IF total % partSize # 0 THEN 1 ELSE 0)

=============================================================================
