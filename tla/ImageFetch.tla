----------------------------- MODULE ImageFetch -----------------------------
(***************************************************************************)
(* How a node comes by the image of a request and what its model answers:  *)
(* ConsensusEngine._run_inference, the fetch from the peers (P2PServer)    *)
(* and the content-addressed store (ImageStore), for one image.            *)
(*                                                                         *)
(* The engine reads the store in an executor thread, beside the event loop *)
(* that runs everything else: uploads and answers of peers are written     *)
(* while it reads.  Neither the write nor the read is atomic.              *)
(***************************************************************************)
EXTENDS Naturals

CONSTANTS
  ImPeer,
  ImMaxRounds   \* bound: rounds for the same request

VARIABLES
  imFile,     \* what is at the path of the image
  imWriting,  \* a put is between opening the file and closing it
  imRead,     \* the read in the executor thread
  imStage,    \* of _run_inference
  imEvent,    \* _pending_image_fetches
  imHolds,    \* the peers that hold the image
  imAsked,    \* IMAGE_REQUESTs on their way
  imSent,     \* IMAGE_RESPONSEs on their way
  imAnswer,   \* what the model was asked about in the last round
  imFound,    \* the round found the image: at its begin, when it asked the
              \* peers, or woken by an answer
  imRaised,   \* the image could not be decoded, or the model raised
  imRounds

imVars == <<imFile, imWriting, imRead, imStage, imEvent, imHolds, imAsked,
            imSent, imAnswer, imFound, imRaised, imRounds>>

imLoop == <<imFile, imWriting, imEvent, imHolds, imAsked, imSent>>
imRound == <<imAnswer, imFound, imRaised, imRounds>>

\* A node that was killed while it wrote has left half a file.
ImInit ==
  /\ imFile \in {"none", "part", "whole"}
  /\ imWriting = FALSE /\ imRead = "no" /\ imStage = "idle" /\ imEvent = "no"
  /\ imHolds \in SUBSET ImPeer
  /\ imAsked = {} /\ imSent = {} /\ imAnswer = "none" /\ imRounds = 0
  /\ imFound = FALSE /\ imRaised = FALSE

\* Mutant: files are written beside the loop.
LoopGoesOn == TRUE
\* The event loop does nothing else while it writes.
LoopIsFree == ~imWriting

-----------------------------------------------------------------------------
(* ImageStore *)

\* put: the file is there, and not whole, from the moment it is opened.
Opened == imFile' = "part" /\ imWriting' = TRUE

\* What was deleted under the writer stays deleted.
PutEnds ==
  /\ imWriting
  /\ imWriting' = FALSE
  /\ imFile' = IF imFile = "part" THEN "whole" ELSE imFile
  /\ UNCHANGED <<imRead, imStage, imEvent, imHolds, imAsked, imSent, imRound>>

\* get: the bytes, or nothing if they are not those of the hash.
Get(bytes) == IF bytes = "whole" THEN "whole" ELSE "none"

\* The thread looks at the path, then reads the file.  If that is gone by now
\* the read raises, and the engine logs it.
ThreadLooks ==
  /\ imRead = "begun"
  /\ imRead' = IF imFile = "none" THEN "none" ELSE "found"
  /\ UNCHANGED <<imLoop, imStage, imRound>>

ThreadReads ==
  /\ imRead = "found"
  /\ imRead' = imFile
  /\ UNCHANGED <<imLoop, imStage, imRound>>

\* The thread checks what it read, and deletes the file if that is not the
\* image, whatever the file is by now.
ThreadDeletes ==
  /\ imRead = "part" /\ Get(imRead) = "none"
  /\ imFile' = "none" /\ imRead' = "none"
  /\ UNCHANGED <<imWriting, imStage, imEvent, imHolds, imAsked, imSent, imRound>>

\* get in the event loop, when there is a file: half a file is deleted there too.
Gotten == IF Get(imFile) = "none" THEN imFile' = "none" ELSE UNCHANGED imFile

-----------------------------------------------------------------------------
(* _run_inference *)

Answered(bytes) ==
  /\ imAnswer' = IF bytes = "none" THEN "uniform" ELSE bytes
  /\ imStage' = "idle"

\* What fetch_image returns is loaded once more, if it is anything.
Reload ==
  /\ Gotten /\ imFound' = TRUE
  /\ IF Get(imFile) = "none" THEN Answered("none") /\ imRead' = "no"
     ELSE imStage' = "reload" /\ imRead' = "begun" /\ UNCHANGED imAnswer

\* Step 1, in the executor.  A request whose round failed is taken again.
BeginInference ==
  /\ LoopIsFree
  /\ imStage = "idle" /\ imRounds < ImMaxRounds
  /\ imStage' = "local" /\ imRounds' = imRounds + 1
  /\ imRead' = "begun"
  /\ imFound' = (imFile = "whole") /\ imRaised' = FALSE
  /\ UNCHANGED <<imLoop, imAnswer>>

\* get_tensor cannot decode the bytes.
LoadRaises ==
  /\ imRead = "whole"
  /\ imRead' = "none" /\ imRaised' = TRUE
  /\ UNCHANGED <<imLoop, imStage, imAnswer, imFound, imRounds>>

\* The engine goes on with a tensor, which the model may refuse.
ReadBack ==
  /\ LoopIsFree
  /\ imStage \in {"local", "reload"}
  /\ imRead \in {"part", "whole"} /\ Get(imRead) # "none"
  /\ \/ Answered(Get(imRead)) /\ UNCHANGED imRaised
     \/ Answered("none") /\ imRaised' = TRUE
  /\ imRead' = "no"
  /\ UNCHANGED <<imLoop, imFound, imRounds>>

\* Step 2: fetch_image looks at the path again, then asks every peer.  With
\* nobody to ask the vote is the uniform one.
Ask ==
  /\ LoopIsFree
  /\ imStage = "local" /\ imRead = "none"
  /\ IF imFile # "none" THEN Reload /\ UNCHANGED <<imEvent, imAsked>>
     ELSE /\ \/ imStage' = "waiting" /\ imEvent' = "registered" /\ imAsked' = ImPeer
                /\ UNCHANGED imAnswer
             \/ Answered("none") /\ UNCHANGED <<imEvent, imAsked>>
          /\ imRead' = "no" /\ UNCHANGED <<imFile, imFound>>
  /\ UNCHANGED <<imWriting, imHolds, imSent, imRaised, imRounds>>

\* The event is set: fetch_image reads what was stored.
FetchReturns ==
  /\ LoopIsFree
  /\ imStage = "waiting" /\ imEvent = "set"
  /\ imEvent' = "no" /\ Reload
  /\ UNCHANGED <<imWriting, imHolds, imAsked, imSent, imRaised, imRounds>>

\* Eight seconds are over, perhaps in the same pass of the loop in which an
\* answer has set the event: the wait is cancelled all the same.
FetchTimesOut ==
  /\ LoopIsFree
  /\ imStage = "waiting"
  /\ imEvent' = "no" /\ Answered("none")
  /\ UNCHANGED <<imFile, imWriting, imRead, imHolds, imAsked, imSent, imFound,
                 imRaised, imRounds>>

\* Step 3: the second load failed too.
GiveUpReload ==
  /\ LoopIsFree
  /\ imStage = "reload" /\ imRead = "none"
  /\ Answered("none") /\ imRead' = "no"
  /\ UNCHANGED <<imLoop, imFound, imRaised, imRounds>>

-----------------------------------------------------------------------------
(* Others *)

\* A peer that does not hold the image stays silent; it checks what it sends.
OnImageRequest(p) ==
  /\ p \in imAsked
  /\ imAsked' = imAsked \ {p}
  /\ imSent' = IF p \in imHolds THEN imSent \cup {p} ELSE imSent
  /\ UNCHANGED <<imFile, imWriting, imRead, imStage, imEvent, imHolds, imRound>>

\* A peer asks this node: what it finds to be half a file is deleted.
PeerAsks ==
  /\ LoopIsFree
  /\ imFile # "none" /\ Gotten
  /\ UNCHANGED <<imWriting, imRead, imStage, imEvent, imHolds, imAsked, imSent, imRound>>

\* An answer, perhaps to a fetch that is over: it is stored, and whoever
\* waits is woken.
OnImageResponse(p) ==
  /\ LoopIsFree
  /\ p \in imSent
  /\ imSent' = imSent \ {p}
  /\ IF imFile = "none" THEN Opened ELSE UNCHANGED <<imFile, imWriting>>
  /\ imEvent' = IF imEvent = "registered" THEN "set" ELSE imEvent
  /\ UNCHANGED <<imRead, imStage, imHolds, imAsked, imRound>>

\* POST /inference/image, at this node or at a peer.
UploadImage ==
  /\ LoopIsFree
  /\ imFile = "none" /\ Opened
  /\ UNCHANGED <<imRead, imStage, imEvent, imHolds, imAsked, imSent, imRound>>

PeerUpload(p) ==
  /\ p \notin imHolds
  /\ imHolds' = imHolds \cup {p}
  /\ UNCHANGED <<imFile, imWriting, imRead, imStage, imEvent, imAsked, imSent, imRound>>

ConnectionBreaks(p) ==
  /\ p \in imAsked \cup imSent
  /\ imAsked' = imAsked \ {p} /\ imSent' = imSent \ {p}
  /\ UNCHANGED <<imFile, imWriting, imRead, imStage, imEvent, imHolds, imRound>>

ImNext ==
  \/ PutEnds \/ ThreadLooks \/ ThreadReads \/ ThreadDeletes
  \/ BeginInference \/ LoadRaises \/ ReadBack \/ Ask \/ FetchReturns \/ FetchTimesOut \/ GiveUpReload
  \/ \E p \in ImPeer : OnImageRequest(p) \/ OnImageResponse(p)
                       \/ PeerUpload(p) \/ ConnectionBreaks(p)
  \/ UploadImage \/ PeerAsks

ImSpec == ImInit /\ [][ImNext]_imVars

-----------------------------------------------------------------------------
\* A round that finds the image on the disk when it begins or when it asks the
\* peers, or that an answer wakes, votes on it unless it cannot be decoded or
\* the model raises: no upload, no late answer, no reader in the other thread and
\* no half file of an earlier run takes it away in between.  It may be taken away
\* before it is found: a round that reads half an upload deletes it and asks the
\* peers, and votes uniformly if none of them answers in time.
FoundImageIsUsed ==
  imStage = "idle" /\ imFound /\ ~imRaised => imAnswer = "whole"
=============================================================================
