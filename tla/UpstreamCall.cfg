\* Three attempts over bodies with every field a compat rule can rewrite.
SPECIFICATION Spec
CONSTANTS
  ChatBodies <- MCChatBodies
  Complaints <- MCComplaints
  Statuses = {200, 400, 401, 429, 500, 502}
  MaxRetries = 2
INVARIANTS
  SendsBounded
  GivesUpOnlyWhenNothingHelps
  HonestUpstreamIsServed
  NothingLostInVain
CHECK_DEADLOCK FALSE
