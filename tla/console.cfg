\* A screen of two lines of four cells with tab stops at every second.
CONSTANTS
  COL = 4
  ROW = 2
  TabWidth = 2
  Output = {"x", "LF", "TAB", "BS", "CR", "NUL"}
  CursorAt = {0, 2, 3, 7, 8, 9}
  MaxOutput = 6
SPECIFICATION Spec
INVARIANTS ShowsPaper StaysOnScreen
