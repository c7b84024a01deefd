SPECIFICATION Spec
CONSTANTS
  MaxTx = 3
  None = None
  BlockIDs <- MCBlockIDs
  Addresses <- MCAddresses
  Tags <- MCTags
  TransactionIDs <- MCTransactionIDs
  OutputIDs <- MCOutputIDs
  NewOutputs <- MCNewOutputs
INVARIANTS TypeOK PublishedWhereSubscribed NobodyIsToldTwice FetchAnswersSubscriber
           ChainSubscriberIsCurrent TransactionsAnnouncedOnce
