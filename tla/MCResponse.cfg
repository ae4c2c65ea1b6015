CONSTANTS
    NoAccount = NoAccount
    Accounts = {a, b}
    MaxAttempts = 3
CHECK_DEADLOCK FALSE
SPECIFICATION FairSpec
INVARIANTS LeaseFollowsAttempt AuditedOnce ReauthAfterRenewal BlamedOnEvidence RefusalIsRemembered AskedOnce
PROPERTIES Ends
