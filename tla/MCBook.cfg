SPECIFICATION Spec
CONSTANTS
    Accounts <- MCAccounts
    Currencies <- MCCurrencies
    p1 = p1
    p2 = p2
    Posters = {p1, p2}
    Readers = {r1}
    RequestsOf <- MCRequestsOf
    Charts <- MCCharts
    MaxPostings = 3
    MinMinor <- MCMinMinor
    MaxMinor = 1
    None = None
    Absent = Absent
    Null = Null
    Wrong = Wrong
INVARIANTS
    TypeOK
    PostingsKeepToOneCurrency
    CreatedIsReadBack
    UnbalancedSaysHowFar
    TheLegRefusedIsAtFault
    NothingUnreadIsPosted
    OnePassMendsABody
PROPERTY ReadsTellOfOneBook
CHECK_DEADLOCK FALSE
