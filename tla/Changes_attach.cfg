CONSTANTS
    Kind = "changes"
    Id = {"pr1", "pr2"}
    MaxItems = 2
    MaxAdds = 2
    MaxListFaults = 1
    MaxRestarts = 1
SPECIFICATION ChangesSpec
PROPERTY NothingLostUnread
CHECK_DEADLOCK FALSE
