\* Every message of at most five words over MCWords.  JBR_MAX_KEY_LEN and
\* EJDB_COLLECTION_NAME_MAX_LEN are scaled to 1, nbuf to two digits and the
\* int64_t id to 6 bits, so that long keys and collections, truncated and
\* overflowing ids all occur.
CONSTANTS
  Words <- MCWords
  MaxWords = 5
  MaxKeyLen = 1
  CollMax = 1
  NumBufSize = 3
  IdBits = 6
  NULL = NULL
SPECIFICATION Spec
INVARIANT WsMutationIsWhatWasSent
