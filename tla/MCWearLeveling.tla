--------------------------- MODULE MCWearLeveling ---------------------------
(* Small instances of the wear-leveling store for TLC.                     *)
EXTENDS WearLevelingRecovery

\* A read past the backing store: erased flash, or the contents of whatever
\* follows.
ErasedBeyond == ZeroWord
UsedBeyond == [i \in 0..(WriteSize - 1) |-> 7]

\* With two-byte words: a one-word entry, an encoded 0/1 word, multi-byte
\* entries of two and three bytes, an entry whose data is zero, and a request
\* that mixes encodings (OptLimit cuts it) and one outside the store.
MixedRequests == { <<0, <<7>>>>, <<2, <<1, 0>>>>, <<9, <<9, 8>>>>,
                   <<3, <<3, 4, 5>>>>, <<10, <<0, 0>>>>, <<11, <<6, 6>>>> }

\* Requests that take several entries each: seven bytes.
LongRequests == { <<4, <<1, 2, 3, 4, 5, 6, 7>>>>, <<4, <<9, 9>>>>,
                  <<12, <<5>>>>, <<0, <<0, 8>>>> }

=============================================================================
