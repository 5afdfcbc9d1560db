----------------------------- MODULE MCDropzone -----------------------------
EXTENDS Dropzone, TLC

CONSTANTS z1, z2

Default == [parallelUploads |-> 1, uploadMultiple |-> FALSE, autoQueue |-> TRUE,
            autoProcessQueue |-> TRUE, createImageThumbnails |-> FALSE,
            forceFallback |-> FALSE, acceptedFiles |-> BOOLEAN, picks |-> 2,
            maxFiles |-> 0, asynchronous |-> FALSE]

One(o) == z1 :> o @@ z2 :> [Default EXCEPT !.forceFallback = TRUE]

Thumbnails == [Default EXCEPT !.createImageThumbnails = TRUE,
                              !.acceptedFiles = {FALSE}]

Groups == One([Default EXCEPT !.parallelUploads = 2, !.uploadMultiple = TRUE,
                              !.asynchronous = TRUE, !.maxFiles = 2])

Limited == One([Default EXCEPT !.maxFiles = 1, !.picks = 3,
                               !.acceptedFiles = {TRUE}])

ByHand == One([Default EXCEPT !.autoQueue = FALSE, !.autoProcessQueue = FALSE])

\* A zone that groups and hears late what is accepted, one with a limit, one by
\* hand, and two that share the queue of thumbnails.
SampleLayouts ==
  {Groups, Limited, ByHand, z1 :> Thumbnails @@ z2 :> Thumbnails}
=============================================================================
