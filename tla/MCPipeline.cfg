SPECIFICATION FairTextSpec
CONSTANTS
  Uids <- MCTwo
  Tokenizers = {}
  Detokenizer = detokenizer
  MaxTokens <- MCMaxTokens
  TooLong = {2}
  Overlap = TRUE
  Vocab <- MCVocab
  Eos <- MCEos
  Chinese <- MCChinese
INVARIANTS
  TypeOK
  StreamFaithful
  NoLostWakeup
  EndsOnce
  AbortAfterRequest
  TextFaithful
PROPERTIES
  RequestsEnd
CHECK_DEADLOCK FALSE
