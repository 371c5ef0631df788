\* One challenge, two verifications of it, a device check that may take as long as the nonce is kept.
SPECIFICATION ReceiptsSpec
CONSTANTS
  Subjects = {"ann"}
  Policies = {"first-use", "hook"}
  Keys = {"f"}
  Devices = {"d1"}
  Challenges = {"c"}
  Lives = {1}
  Verifications = {"v1", "v2"}
  MaxTime = 6
INVARIANT NeverAcceptedTwice
CHECK_DEADLOCK FALSE
